---- MODULE Spec2Model ----
(***************************************************************************)
(* A model of llpr, a read-only PDF parser: the byte source, the token     *)
(* scanner (next_token.rs), the object parser (next_object.rs), the page   *)
(* contents iterator (page_contents.rs) and the document (pdf_document.rs).*)
(* Bytes are their ASCII codes; a Result is [kind, val] with kind one of   *)
(* "Some", "None", "Err"; tokens and objects are [kind, val].              *)
(***************************************************************************)
EXTENDS Integers, Sequences, FiniteSets, TLC

VARIABLES
    bytes,    \* the bytes held by the in-memory source
    pos,      \* the source cursor: the number of bytes before it
    caller,   \* the entry point driving the scanner: "next_object" or "next_token"
    pc,       \* where the scanner is: "idle" between calls, else the running loop
    loc,      \* the locals of the running scanner function
    frames,   \* the open array()/dictionary() activations of next_object
    token,    \* the last value next_token returned
    result,   \* the last value returned to the caller
    file,     \* the PDF file behind the document's source
    doc,      \* the PdfDocument: its source cursor, xref table and page vector
    dpc,      \* where PdfDocument::new is, then "open" or "failed"
    locals,   \* the locals of PdfDocument::new
    last      \* the last operation on the document and what it returned

scan_vars == <<bytes, pos, caller, pc, loc, frames, token, result>>

doc_vars == <<file, doc, dpc, locals, last>>

vars == <<scan_vars, doc_vars>>

(***************************************************************************)
(* Bounds of the model.                                                    *)
(***************************************************************************)
MaxContentLen == 3

MaxHexLen == 4

MaxKids == 2

MaxDepth == 3

MaxPageNo == 2

\* the longest body of a literal string
MaxStringLen == 3

\* the most key/value pairs written in a dictionary
MaxPairs == 2

\* the longest filter chain of a stream
MaxFilters == 2

\* the most chunks a buffer handed to find_trailer is made of
MaxChunks == 3

\* the longest body of an object envelope read at byte level
MaxBodyLen == 2

\* the longest token that is all of a source
MaxTokenLen == 3

\* the longest source of white space and comments
MaxBlankLen == 3

\* the most elements written in an array or a dictionary, a leading reference
\* apart
MaxElems == 4

(***************************************************************************)
(* Bytes and character classes (next_token.rs).                            *)
(***************************************************************************)
B == [tab |-> 9, lf |-> 10, ff |-> 12, cr |-> 13, sp |-> 32, hash |-> 35,
      pct |-> 37, lpar |-> 40, rpar |-> 41, plus |-> 43, minus |-> 45,
      dot |-> 46, slash |-> 47, zero |-> 48, lt |-> 60, gt |-> 62,
      upA |-> 65, lbrk |-> 91, bslash |-> 92, rbrk |-> 93, lowa |-> 97,
      lowb |-> 98, lowf |-> 102, lown |-> 110, lowr |-> 114, lowt |-> 116]

None == -1

Whitespace == {B.sp, B.tab, B.lf, B.cr, B.ff}

IsLetter(ch) == ch \in 65..90 \/ ch \in 97..122

IsDigit(ch) == ch \in 48..57

IsOctal(ch) == ch \in 48..55

Some(x) == [kind |-> "Some", val |-> x]

NoneResult == [kind |-> "None", val |-> <<>>]

Err(e) == [kind |-> "Err", val |-> e]

Pending == [kind |-> "Pending", val |-> <<>>]

NotCalled == [kind |-> "NotCalled", val |-> <<>>]

Tok(k, v) == [kind |-> k, val |-> v]

RECURSIVE BoundedSeq(_, _)
BoundedSeq(S, n) ==
    IF n = 0 THEN {<<>>}
    ELSE LET shorter == BoundedSeq(S, n - 1)
         IN shorter \cup {Append(s, x) : s \in {t \in shorter : Len(t) = n - 1}, x \in S}

(***************************************************************************)
(* The byte source.  getch returns the byte under the cursor and advances, *)
(* or None at the end of input without moving; backup moves the cursor     *)
(* back by one byte and does nothing at position 0.                        *)
(***************************************************************************)
Getch(b, p) ==
    IF p < Len(b) THEN [ch |-> b[p + 1], pos |-> p + 1]
    ELSE [ch |-> None, pos |-> p]

Backup(p) == IF p > 0 THEN p - 1 ELSE 0

(***************************************************************************)
(* The generated lookup tables (build.rs).                                 *)
(***************************************************************************)
KEYWORDS ==
    (<<85, 110, 107, 110, 111, 119, 110>> :> "Unknown") @@
    (<<101, 110, 100, 111, 98, 106>> :> "endobj") @@
    (<<101, 110, 100, 115, 116, 114, 101, 97, 109>> :> "endstream") @@
    (<<102>> :> "f") @@
    (<<102, 97, 108, 115, 101>> :> "false") @@
    (<<110>> :> "n") @@
    (<<110, 117, 108, 108>> :> "null") @@
    (<<111, 98, 106>> :> "obj") @@
    (<<82>> :> "R") @@
    (<<115, 116, 114, 101, 97, 109>> :> "stream") @@
    (<<116, 114, 97, 105, 108, 101, 114>> :> "trailer") @@
    (<<116, 114, 117, 101>> :> "true") @@
    (<<115, 116, 97, 114, 116, 120, 114, 101, 102>> :> "startxref") @@
    (<<120, 114, 101, 102>> :> "xref")

NAMES ==
    (<<85, 110, 107, 110, 111, 119, 110>> :> "Unknown") @@
    (<<65, 65>> :> "AA") @@
    (<<65, 99, 114, 111, 70, 111, 114, 109>> :> "AcroForm") @@
    (<<65, 115, 99, 101, 110, 116>> :> "Ascent") @@
    (<<65, 83, 67, 73, 73, 56, 53, 68, 101, 99, 111, 100, 101>> :> "ASCII85Decode") @@
    (<<65, 83, 67, 73, 73, 72, 101, 120, 68, 101, 99, 111, 100, 101>> :> "ASCIIHexDecode") @@
    (<<67, 67, 73, 84, 84, 70, 97, 120, 68, 101, 99, 111, 100, 101>> :> "CCITTFaxDecode") @@
    (<<67, 97, 116, 97, 108, 111, 103>> :> "Catalog") @@
    (<<67, 111, 108, 108, 101, 99, 116, 105, 111, 110>> :> "Collection") @@
    (<<67, 114, 121, 112, 116>> :> "Crypt") @@
    (<<68, 67, 84, 68, 101, 99, 111, 100, 101>> :> "DCTDecode") @@
    (<<68, 101, 115, 116, 115>> :> "Dests") @@
    (<<68, 76>> :> "DL") @@
    (<<69, 110, 99, 114, 121, 112, 116>> :> "Encrypt") @@
    (<<69, 120, 116, 101, 110, 115, 105, 111, 110, 115>> :> "Extensions") @@
    (<<70, 108, 97, 116, 101, 68, 101, 99, 111, 100, 101>> :> "FlateDecode") @@
    (<<70, 111, 110, 116>> :> "Font") @@
    (<<70, 111, 110, 116, 68, 101, 115, 99, 114, 105, 112, 116, 111, 114>> :> "FontDescriptor") @@
    (<<70, 111, 110, 116, 70, 105, 108, 101>> :> "FontFile") @@
    (<<73, 68>> :> "ID") @@
    (<<73, 110, 102, 111>> :> "Info") @@
    (<<74, 66, 73, 71, 50, 68, 101, 99, 111, 100, 101>> :> "JBIG2Decode") @@
    (<<74, 80, 88, 68, 101, 99, 111, 100, 101>> :> "JPXDecode") @@
    (<<76, 97, 110, 103>> :> "Lang") @@
    (<<76, 101, 103, 97, 108>> :> "Legal") @@
    (<<76, 101, 110, 103, 116, 104>> :> "Length") @@
    (<<76, 90, 87, 68, 101, 99, 111, 100, 101>> :> "LZWDecode") @@
    (<<77, 97, 114, 107, 73, 110, 102, 111>> :> "MarkInfo") @@
    (<<77, 101, 116, 97, 100, 97, 116, 97>> :> "Metadata") @@
    (<<78, 97, 109, 101, 115>> :> "Names") @@
    (<<78, 101, 101, 100, 115, 82, 101, 110, 100, 101, 114, 105, 110, 103>> :> "NeedsRendering") @@
    (<<79, 67, 80, 114, 111, 112, 101, 114, 116, 105, 101, 115>> :> "OCProperties") @@
    (<<79, 112, 101, 110, 65, 99, 116, 105, 111, 110>> :> "OpenAction") @@
    (<<79, 117, 116, 108, 105, 110, 101, 115>> :> "Outlines") @@
    (<<79, 117, 116, 112, 117, 116, 73, 110, 116, 101, 110, 116, 115>> :> "OutputIntents") @@
    (<<80, 97, 103, 101>> :> "Page") @@
    (<<80, 97, 103, 101, 115>> :> "Pages") @@
    (<<80, 97, 103, 101, 76, 97, 98, 101, 108, 115>> :> "PageLabels") @@
    (<<80, 97, 103, 101, 76, 97, 121, 111, 117, 116>> :> "PageLayout") @@
    (<<80, 97, 103, 101, 77, 111, 100, 101>> :> "PageMode") @@
    (<<80, 101, 114, 109, 115>> :> "Perms") @@
    (<<80, 105, 101, 99, 101, 73, 110, 102, 111>> :> "PieceInfo") @@
    (<<80, 114, 101, 118>> :> "Prev") @@
    (<<82, 101, 113, 117, 105, 114, 101, 109, 101, 110, 116, 115>> :> "Requirements") @@
    (<<82, 111, 111, 116>> :> "Root") @@
    (<<82, 117, 110, 76, 101, 110, 103, 116, 104, 68, 101, 99, 111, 100, 101>> :> "RunLengthDecode") @@
    (<<83, 105, 122, 101>> :> "Size") @@
    (<<83, 112, 105, 100, 101, 114, 73, 110, 102, 111>> :> "SpiderInfo") @@
    (<<83, 116, 114, 117, 99, 116, 84, 114, 101, 101, 82, 111, 111, 116>> :> "StructTreeRoot") @@
    (<<83, 117, 98, 84, 121, 112, 101>> :> "SubType") @@
    (<<84, 104, 114, 101, 97, 100, 115>> :> "Threads") @@
    (<<84, 111, 85, 110, 105, 99, 111, 100, 101>> :> "ToUnicode") @@
    (<<84, 121, 112, 101>> :> "Type") @@
    (<<85, 82, 73>> :> "URI") @@
    (<<86, 101, 114, 115, 105, 111, 110>> :> "Version") @@
    (<<86, 105, 101, 119, 101, 114, 80, 114, 101, 102, 101, 114, 101, 110, 99, 101, 115>> :> "ViewerPreferences")

pdf_keyword(text) == IF text \in DOMAIN KEYWORDS THEN KEYWORDS[text] ELSE "Unknown"

pdf_name(text) == IF text \in DOMAIN NAMES THEN Some(NAMES[text]) ELSE NoneResult

(***************************************************************************)
(* Number conversion: str::parse::<i64> and str::parse::<f64> on the text  *)
(* number() accumulates (a first byte in + - . 0-9, then digits and dots). *)
(* A Real is held as mantissa m and decimal scale s, trailing zeros        *)
(* removed, so that equal values are equal.                                *)
(***************************************************************************)
RECURSIVE DigitsValue(_)
DigitsValue(ds) ==
    IF Len(ds) = 0 THEN 0
    ELSE 10 * DigitsValue(SubSeq(ds, 1, Len(ds) - 1)) + (ds[Len(ds)] - B.zero)

HasSign(text) == Len(text) > 0 /\ text[1] \in {B.plus, B.minus}

Unsigned(text) == IF HasSign(text) THEN Tail(text) ELSE text

Signed(text, n) == IF HasSign(text) /\ text[1] = B.minus THEN 0 - n ELSE n

ParseInteger(text) ==
    LET body == Unsigned(text)
    IN IF Len(body) > 0 /\ \A i \in 1..Len(body) : IsDigit(body[i])
       THEN Some(Tok("Integer", Signed(text, DigitsValue(body))))
       ELSE Err("ParseIntError")

RECURSIVE Normalize(_, _)
Normalize(m, s) ==
    IF s > 0 /\ m % 10 = 0 THEN Normalize(m \div 10, s - 1) ELSE [m |-> m, s |-> s]

ParseReal(text) ==
    LET body == Unsigned(text)
        dots == {i \in 1..Len(body) : body[i] = B.dot}
        digits == SelectSeq(body, IsDigit)
    IN IF Cardinality(dots) = 1 /\ Len(digits) > 0
       THEN LET d == CHOOSE i \in dots : TRUE
                n == Normalize(DigitsValue(digits), Len(body) - d)
            IN Some(Tok("Real", [m |-> Signed(text, n.m), s |-> n.s]))
       ELSE Err("ParseFloatError")

nybble(ch) ==
    CASE IsDigit(ch) -> Some(ch - B.zero)
      [] ch \in 65..70 -> Some(10 + (ch - B.upA))
      [] ch \in 97..102 -> Some(10 + (ch - B.lowa))
      [] ch = None -> Err("EndOfFile")
      [] OTHER -> Err("invalid hex character")

\* String::as_bytes of a string of chars U+0000..U+00FF: chars from U+0080 on
\* take two bytes.
RECURSIVE Utf8(_)
Utf8(chars) ==
    IF Len(chars) = 0 THEN <<>>
    ELSE LET c == Head(chars)
         IN (IF c < 128 THEN <<c>> ELSE <<192 + (c \div 64), 128 + (c % 64)>>)
            \o Utf8(Tail(chars))

name_token(chars) ==
    LET n == pdf_name(chars)
    IN IF n.kind = "Some" THEN Some(Tok("Name", n.val))
       ELSE Some(Tok("Symbol", Utf8(chars)))

\* octal_escape: up to two more octal digits after the first; a byte that is
\* no octal digit, or the end of input, is followed by backup().
RECURSIVE octal_escape(_, _, _, _)
octal_escape(b, p, octal, digits) ==
    LET g == Getch(b, p)
    IN IF IsOctal(g.ch)
       THEN LET o == ((octal * 8) % 256) + (g.ch - B.zero)
            IN IF digits + 1 = 3 THEN [val |-> o, pos |-> g.pos]
               ELSE octal_escape(b, g.pos, o, digits + 1)
       ELSE [val |-> octal, pos |-> Backup(g.pos)]

(***************************************************************************)
(* The loop bodies of the scanner.  Each takes the source and the locals   *)
(* and gives [pos, loc, ret]: the cursor and locals after one iteration    *)
(* and, when the function returns in this iteration, its value in ret      *)
(* (Pending while the loop goes on).                                       *)
(***************************************************************************)
InitLoc == [in_comment |-> FALSE, text |-> <<>>, decimal |-> FALSE, nesting |-> 0,
            first |-> FALSE, value |-> 0, hex |-> 0, start |-> 0, ntok |-> 0]

Go(p, l) == [pos |-> p, loc |-> l, ret |-> Pending]

Ret(p, l, r) == [pos |-> p, loc |-> l, ret |-> r]

\* skip_whitespace returns (); ret is Some(<<>>) when it returns.
skip_whitespace(b, p, l) ==
    LET g == Getch(b, p)
    IN IF l.in_comment
       THEN IF g.ch = B.lf THEN Go(g.pos, [l EXCEPT !.in_comment = FALSE])
            ELSE Go(g.pos, l)
       ELSE IF g.ch = B.pct THEN Go(g.pos, [l EXCEPT !.in_comment = TRUE])
       ELSE IF g.ch # None
            THEN IF g.ch \notin Whitespace THEN Ret(Backup(g.pos), l, Some(<<>>))
                 ELSE Go(g.pos, l)
            ELSE Ret(g.pos, l, Some(<<>>))

\* keyword with backup() in the arm of None as well
keyword_backup_at_eof(b, p, l) ==
    LET g == Getch(b, p)
    IN IF IsLetter(g.ch) THEN Go(g.pos, [l EXCEPT !.text = Append(@, g.ch)])
       ELSE Ret(Backup(g.pos), l, Some(Tok("Keyword", pdf_keyword(l.text))))

keyword(b, p, l) ==
    LET g == Getch(b, p)
    IN IF IsLetter(g.ch) THEN Go(g.pos, [l EXCEPT !.text = Append(@, g.ch)])
       ELSE IF g.ch # None
            THEN Ret(Backup(g.pos), l, Some(Tok("Keyword", pdf_keyword(l.text))))
            ELSE Ret(g.pos, l, Some(Tok("Keyword", pdf_keyword(l.text))))

number(b, p, l) ==
    LET g == Getch(b, p)
    IN IF IsDigit(g.ch) THEN Go(g.pos, [l EXCEPT !.text = Append(@, g.ch)])
       ELSE IF g.ch = B.dot
            THEN Go(g.pos, [l EXCEPT !.text = Append(@, B.dot), !.decimal = TRUE])
            ELSE Ret(Backup(g.pos), l,
                     IF l.decimal THEN ParseReal(l.text) ELSE ParseInteger(l.text))

name_or_symbol(b, p, l) ==
    LET g == Getch(b, p)
    IN IF g.ch = None \/ g.ch \in Whitespace
       THEN Ret(Backup(g.pos), l, name_token(l.text))
       ELSE IF g.ch = B.hash
            THEN LET g1 == Getch(b, g.pos)
                     hi == nybble(g1.ch)
                     g2 == Getch(b, g1.pos)
                     lo == nybble(g2.ch)
                 IN IF hi.kind = "Err" THEN Ret(g1.pos, l, hi)
                    ELSE IF lo.kind = "Err" THEN Ret(g2.pos, l, lo)
                    ELSE Go(g2.pos, [l EXCEPT !.text = Append(@, hi.val * 16 + lo.val)])
            ELSE Go(g.pos, [l EXCEPT !.text = Append(@, g.ch)])

string(b, p, l) ==
    LET g == Getch(b, p)
        push(q, c) == Go(q, [l EXCEPT !.text = Append(@, c)])
    IN IF g.ch = B.lpar
       THEN Go(g.pos, [l EXCEPT !.text = Append(@, B.lpar), !.nesting = @ + 1])
       ELSE IF g.ch = None \/ g.ch = B.rpar
            THEN IF l.nesting = 0 THEN Ret(g.pos, l, Some(Tok("Str", l.text)))
                 ELSE Go(g.pos, [l EXCEPT !.text = Append(@, B.rpar), !.nesting = @ - 1])
       ELSE IF g.ch = B.bslash
            THEN LET e == Getch(b, g.pos)
                 IN CASE e.ch = B.lown -> push(e.pos, B.lf)
                      [] e.ch = B.lowr -> push(e.pos, B.cr)
                      [] e.ch = B.lowt -> push(e.pos, B.tab)
                      [] e.ch = B.lowb -> push(e.pos, 8)
                      [] e.ch = B.lowf -> push(e.pos, B.ff)
                      [] e.ch = B.lpar -> push(e.pos, B.lpar)
                      [] e.ch = B.rpar -> push(e.pos, B.rpar)
                      [] IsOctal(e.ch) ->
                            LET o == octal_escape(b, e.pos, e.ch - B.zero, 1)
                            IN push(o.pos, o.val)
                      [] OTHER -> Go(e.pos, l)
            ELSE push(g.pos, g.ch)

hex_string(b, p, l) ==
    LET g == Getch(b, p)
        n == nybble(g.ch)
        \* the locals after the match, before the trailing if
        m == IF g.ch \in Whitespace THEN l
             ELSE [l EXCEPT !.hex = n.val, !.first = ~l.first]
    IN IF g.ch = B.gt
       THEN Ret(g.pos, l, Some(Tok("Str", IF l.first THEN Append(l.text, (l.hex * 16) % 256)
                                           ELSE l.text)))
       ELSE IF g.ch \notin Whitespace /\ n.kind = "Err" THEN Ret(g.pos, l, n)
       ELSE IF m.first THEN Go(g.pos, [m EXCEPT !.value = m.hex])
            ELSE Go(g.pos, [m EXCEPT !.text = Append(@, ((m.value * 16) % 256) + m.hex)])

(***************************************************************************)
(* The object parser (next_object.rs).  The recursion of next_object       *)
(* through array() and dictionary() is the stack `frames`: one frame       *)
(* [kind, elems] per open activation, the innermost last.  Each operator   *)
(* gives [frames, pc, result]: with pc "skip_whitespace" the innermost     *)
(* loop calls next_object again, with pc "idle" the outermost next_object  *)
(* has returned result.                                                    *)
(***************************************************************************)
Obj(k, v) == [kind |-> k, val |-> v]

Null == Obj("Null", <<>>)

Finish_ErrAsNone(r) ==
    [frames |-> <<>>, pc |-> "idle", result |-> IF r.kind = "Err" THEN NoneResult ELSE r]

Finish(r) == [frames |-> <<>>, pc |-> "idle", result |-> r]

Continue(fr) == [frames |-> fr, pc |-> "skip_whitespace", result |-> Pending]

Insert_first(d, k, v) == IF DOMAIN d = {} THEN [x \in {k} |-> v] ELSE d

Insert(d, k, v) == [x \in DOMAIN d \cup {k} |-> IF x = k THEN v ELSE d[x]]

EmptyDict == [x \in {} |-> Null]

\* `id as u32` of an i64: the low 32 bits.  TLC's integers are 32 bits wide, so a
\* u32 is held as the signed integer with the same 32 bits: the numbers below
\* 2^31 as themselves, those from 2^31 up as negative ones, and every comparison
\* of a u32 reads it unsigned (U32Lt).  On the integers a bounded source can hold
\* (far less than 2^31 in size) the low 32 bits are the integer's own.
AsU32(i) == i

U32Lt(a, n) == a >= 0 /\ a < n

AsU16(i) == i % 65536

\* reference with the two integers taken in the other order
reference_swapped(array) ==
    IF Len(array) < 2 THEN Err("not enough arguments for R")
    ELSE LET id == array[Len(array)]
             gen == array[Len(array) - 1]
         IN IF id.kind = "Integer" /\ gen.kind = "Integer"
            THEN Some(Append(SubSeq(array, 1, Len(array) - 2),
                             Obj("Reference", [id |-> AsU32(id.val),
                                               gen |-> AsU16(gen.val)])))
            ELSE Err("invalid arguments to R")

reference(array) ==
    IF Len(array) < 2 THEN Err("not enough arguments for R")
    ELSE LET gen == array[Len(array)]
             id == array[Len(array) - 1]
         IN IF id.kind = "Integer" /\ gen.kind = "Integer"
            THEN Some(Append(SubSeq(array, 1, Len(array) - 2),
                             Obj("Reference", [id |-> AsU32(id.val),
                                               gen |-> AsU16(gen.val)])))
            ELSE Err("invalid arguments to R")

\* the while loop of dictionary() without the arm of Symbol keys
RECURSIVE dictionary_pairs_no_symbol(_, _)
dictionary_pairs_no_symbol(array, dict) ==
    IF Len(array) = 0 THEN Some(Obj("Dictionary", dict))
    ELSE IF array[Len(array) - 1].kind = "Name"
    THEN dictionary_pairs_no_symbol(SubSeq(array, 1, Len(array) - 2),
                                    Insert(dict, array[Len(array) - 1].val, array[Len(array)]))
    ELSE Err("malformed dictionary")

\* the while loop of dictionary(): pairs are popped from the tail
RECURSIVE dictionary_pairs(_, _)
dictionary_pairs(array, dict) ==
    IF Len(array) = 0 THEN Some(Obj("Dictionary", dict))
    ELSE LET value == array[Len(array)]
             name == array[Len(array) - 1]
             rest == SubSeq(array, 1, Len(array) - 2)
         IN CASE name.kind = "Name" -> dictionary_pairs(rest, Insert(dict, name.val, value))
              [] name.kind = "Symbol" -> dictionary_pairs(rest, dict)
              [] OTHER -> Err("malformed dictionary")

dictionary_close(array) ==
    dictionary_pairs(IF Len(array) % 2 # 0 THEN Append(array, Null) ELSE array, EmptyDict)

\* Some(obj) arrives in the loop of the innermost frame, or at the caller
Deliver(fr, obj) ==
    IF fr = <<>> THEN Finish(Some(obj))
    ELSE IF obj.kind = "Keyword" /\ obj.val = "R"
         THEN LET r == reference(fr[Len(fr)].elems)
              IN IF r.kind = "Err" THEN Finish(r)
                 ELSE Continue([fr EXCEPT ![Len(fr)].elems = r.val])
         ELSE Continue([fr EXCEPT ![Len(fr)].elems = Append(@, obj)])

\* None arrives in the loop of the innermost frame, or at the caller
Close(fr) ==
    IF fr = <<>> THEN Finish(NoneResult)
    ELSE LET top == fr[Len(fr)]
             rest == SubSeq(fr, 1, Len(fr) - 1)
         IN IF top.kind = "array" THEN Deliver(rest, Obj("Array", top.elems))
            ELSE LET d == dictionary_close(top.elems)
                 IN IF d.kind = "Err" THEN Finish(d) ELSE Deliver(rest, d.val)

\* the match of next_object on what next_token returned
next_object(fr, t) ==
    IF t.kind = "Err" THEN Finish(t)
    ELSE IF t.kind = "None" THEN Close(fr)
    ELSE CASE t.val.kind = "Keyword" ->
                   IF t.val.val = "null" THEN Deliver(fr, Null)
                   ELSE IF t.val.val = "true" THEN Deliver(fr, Obj("Boolean", TRUE))
                   ELSE IF t.val.val = "false" THEN Deliver(fr, Obj("Boolean", FALSE))
                   ELSE Deliver(fr, t.val)
           [] t.val.kind = "BeginArray" ->
                   Continue(Append(fr, [kind |-> "array", elems |-> <<>>]))
           [] t.val.kind = "BeginDictionary" ->
                   Continue(Append(fr, [kind |-> "dictionary", elems |-> <<>>]))
           [] t.val.kind \in {"EndArray", "EndDictionary"} -> Close(fr)
           [] OTHER -> Deliver(fr, t.val)

(***************************************************************************)
(* The scanner as a state machine: one action per loop iteration.          *)
(***************************************************************************)
\* next_token returns t with the cursor at p: to its caller (caller =
\* "next_token"), or into the match of next_object.
Return(t, p) ==
    /\ pos' = p
    /\ token' = t
    /\ loc' = [InitLoc EXCEPT !.start = loc.start, !.ntok = loc.ntok + 1]
    /\ IF caller = "next_token"
       THEN /\ pc' = "idle"
            /\ result' = t
            /\ frames' = frames
       ELSE LET o == next_object(frames, t)
            IN /\ pc' = o.pc
               /\ result' = o.result
               /\ frames' = o.frames
    /\ UNCHANGED <<bytes, caller, doc_vars>>

\* one iteration s of the loop of the scanner function f
Iterate(f, s) ==
    IF s.ret.kind = "Pending"
    THEN /\ pos' = s.pos
         /\ loc' = s.loc
         /\ UNCHANGED <<bytes, caller, pc, frames, token, result, doc_vars>>
    ELSE IF f = "skip_whitespace"
         THEN /\ pos' = s.pos
              /\ loc' = s.loc
              /\ pc' = "next_token"
              /\ UNCHANGED <<bytes, caller, frames, token, result, doc_vars>>
         ELSE Return(s.ret, s.pos)

Enter(f, p, l) ==
    /\ pos' = p
    /\ loc' = l
    /\ pc' = f
    /\ UNCHANGED <<bytes, caller, frames, token, result, doc_vars>>

\* the caller calls next_object (or next_token)
Call ==
    /\ pc = "idle"
    /\ pc' = "skip_whitespace"
    /\ loc' = [InitLoc EXCEPT !.start = pos]
    /\ frames' = <<>>
    /\ result' = Pending
    /\ UNCHANGED <<bytes, pos, caller, token, doc_vars>>

SkipWhitespaceStep ==
    /\ pc = "skip_whitespace"
    /\ Iterate("skip_whitespace", skip_whitespace(bytes, pos, loc))

\* the match of next_token on the first byte after skip_whitespace
NextTokenDispatch ==
    /\ pc = "next_token"
    /\ LET g == Getch(bytes, pos)
           g2 == Getch(bytes, g.pos)
       IN CASE IsLetter(g.ch) -> Enter("keyword", g.pos, [loc EXCEPT !.text = <<g.ch>>])
            [] g.ch \in {B.plus, B.minus, B.dot} \/ IsDigit(g.ch) ->
                  Enter("number", g.pos,
                        [loc EXCEPT !.text = <<g.ch>>, !.decimal = (g.ch = B.dot)])
            [] g.ch = B.slash -> Enter("name_or_symbol", g.pos, loc)
            [] g.ch = B.lbrk -> Return(Some(Tok("BeginArray", <<>>)), g.pos)
            [] g.ch = B.rbrk -> Return(Some(Tok("EndArray", <<>>)), g.pos)
            [] g.ch = B.lpar -> Enter("string", g.pos, loc)
            [] g.ch = B.lt ->
                  IF g2.ch = B.lt THEN Return(Some(Tok("BeginDictionary", <<>>)), g2.pos)
                  ELSE IF g2.ch # None THEN Enter("hex_string", Backup(g2.pos), loc)
                  ELSE Enter("hex_string", g2.pos, loc)
            [] g.ch = B.gt ->
                  IF g2.ch = B.gt THEN Return(Some(Tok("EndDictionary", <<>>)), g2.pos)
                  ELSE Return(Err("syntax error"), g2.pos)
            [] g.ch = None -> Return(NoneResult, g.pos)
            [] OTHER -> Return(Err("syntax error"), g.pos)

KeywordStep == pc = "keyword" /\ Iterate("keyword", keyword(bytes, pos, loc))

NumberStep == pc = "number" /\ Iterate("number", number(bytes, pos, loc))

NameStep == pc = "name_or_symbol" /\ Iterate("name_or_symbol", name_or_symbol(bytes, pos, loc))

StringStep == pc = "string" /\ Iterate("string", string(bytes, pos, loc))

HexStringStep == pc = "hex_string" /\ Iterate("hex_string", hex_string(bytes, pos, loc))

ScanStep ==
    \/ SkipWhitespaceStep
    \/ NextTokenDispatch
    \/ KeywordStep
    \/ NumberStep
    \/ NameStep
    \/ StringStep
    \/ HexStringStep

(***************************************************************************)
(* The page contents iterator (page_contents.rs): PageContents::new pushes *)
(* a space after the decoded contents and wraps them in a byte source; the *)
(* caller calls next_object again and again.                               *)
(***************************************************************************)
ContentAlphabet ==
    {B.sp, B.lf, B.pct, B.zero + 1, B.dot, B.lowr - 32, B.slash, B.lbrk, B.rbrk,
     B.lt, B.gt, B.lpar}

PageContents_new(contents) == Append(contents, B.sp)

\* no document is involved: the iterator owns its bytes
NoDocument ==
    /\ file = <<>>
    /\ doc = <<>>
    /\ dpc = "none"
    /\ locals = <<>>
    /\ last = <<>>

InitContents ==
    /\ bytes \in {PageContents_new(c) : c \in BoundedSeq(ContentAlphabet, MaxContentLen)}
    /\ pos = 0
    /\ caller = "next_object"
    /\ pc = "idle"
    /\ loc = InitLoc
    /\ frames = <<>>
    /\ token = NotCalled
    /\ result = NotCalled
    /\ NoDocument

NextContents == Call \/ ScanStep

SpecContents == InitContents /\ [][NextContents]_vars

(***************************************************************************)
(* Claims about the page contents iterator.                                *)
(***************************************************************************)
LoopPcs == {"skip_whitespace", "keyword", "number", "name_or_symbol", "string", "hex_string"}

\* the next iteration of the loop the scanner is in
LoopBody ==
    CASE pc = "skip_whitespace" -> skip_whitespace(bytes, pos, loc)
      [] pc = "keyword" -> keyword(bytes, pos, loc)
      [] pc = "number" -> number(bytes, pos, loc)
      [] pc = "name_or_symbol" -> name_or_symbol(bytes, pos, loc)
      [] pc = "string" -> string(bytes, pos, loc)
      [] pc = "hex_string" -> hex_string(bytes, pos, loc)

\* the index of the first byte of b from index i on that is neither whitespace
\* nor part of a % comment; Len(b) + 1 when there is none
RECURSIVE FirstNonBlank(_, _, _)
FirstNonBlank(b, i, in_comment) ==
    IF i > Len(b) THEN i
    ELSE IF in_comment THEN FirstNonBlank(b, i + 1, b[i] # B.lf)
    ELSE IF b[i] = B.pct THEN FirstNonBlank(b, i + 1, TRUE)
    ELSE IF b[i] \in Whitespace THEN FirstNonBlank(b, i + 1, FALSE)
    ELSE i

Exhausted(b, start) == FirstNonBlank(b, start + 1, FALSE) > Len(b)

CloserNext(b, start) ==
    LET j == FirstNonBlank(b, start + 1, FALSE)
    IN /\ j <= Len(b)
       /\ \/ b[j] = B.rbrk
          \/ b[j] = B.gt /\ j + 1 <= Len(b) /\ b[j + 1] = B.gt

Returned == pc = "idle" /\ result.kind \in {"Some", "None", "Err"}

\* C1: every call of next_object on a page contents iterator terminates, and the
\* calls reach one that returns None.  Stated on the loops: every iteration of a
\* running scanner loop returns or changes the cursor or the locals (an iteration
\* that changes nothing repeats for ever, and the call never returns).
C1_EveryCallTerminates ==
    pc \in LoopPcs =>
        LET s == LoopBody
        IN s.ret.kind # "Pending" \/ s.pos # pos \/ s.loc # loc

HexAlphabet == {B.zero + 1, B.lowa, B.sp, B.lf}

HexSource(body) == <<B.lt>> \o body \o <<B.gt>>

InitHex ==
    /\ bytes \in {HexSource(body) : body \in BoundedSeq(HexAlphabet, MaxHexLen)}
    /\ pos = 0
    /\ caller = "next_token"
    /\ pc = "idle"
    /\ loc = InitLoc
    /\ frames = <<>>
    /\ token = NotCalled
    /\ result = NotCalled
    /\ NoDocument

NextHex == Call \/ SkipWhitespaceStep \/ NextTokenDispatch \/ HexStringStep

SpecHex == InitHex /\ [][NextHex]_vars

\* hex_string run to its return, from cursor p with locals l
RECURSIVE hex_string_run(_, _, _)
hex_string_run(b, p, l) ==
    LET s == hex_string(b, p, l)
    IN IF s.ret.kind # "Pending" THEN s.ret ELSE hex_string_run(b, s.pos, s.loc)

HexBody == SubSeq(bytes, 2, Len(bytes) - 1)

IsHexDigit(ch) == nybble(ch).kind = "Some"

StripWhitespace(body) == SelectSeq(body, LAMBDA ch : ch \notin Whitespace)

\* the first call, on < body >, has returned
HexReturned == caller = "next_token" /\ Returned /\ loc.start = 0

\* C9: whitespace inside a hex string is ignored: the token read from < body > is
\* the token read from < body with its whitespace removed >.
C9_HexWhitespaceIgnored ==
    HexReturned => result = hex_string_run(HexSource(StripWhitespace(HexBody)), 1, InitLoc)

\* the bytes N hex digits stand for: digits 2k and 2k+1 make byte k, an odd last
\* digit is the high nibble of a last byte
HexBytes(digits) ==
    [k \in 1..((Len(digits) + 1) \div 2) |->
        16 * nybble(digits[2 * k - 1]).val
        + (IF 2 * k <= Len(digits) THEN nybble(digits[2 * k]).val ELSE 0)]

\* C10: a hex string whose body holds N hex digits is a Str of ceil(N/2) bytes,
\* byte k being 16 * digit(2k) + digit(2k+1), an odd last digit zero-completed.
C10_HexDigitsToBytes ==
    HexReturned => result = Some(Tok("Str", HexBytes(SelectSeq(HexBody, IsHexDigit))))

(***************************************************************************)
(* The document (pdf_document.rs).  The file behind the source is held as  *)
(* what the scanner and object parser make of it: file.parse[p] is the     *)
(* sequence of objects next_object yields from byte offset p on, an item   *)
(* of kind "Err" being a place where it fails, an item of kind "Payload"   *)
(* the raw bytes after a `stream` line.  The cursor [at, k] stands k items *)
(* after offset at.  A method with &mut self takes the document d and      *)
(* gives [ret, doc]: what it returns and the document afterwards.          *)
(* d.raised lists every error raised during the running operation, each    *)
(* with whether it was raised under dereference()'s dictionary arm.        *)
(***************************************************************************)
Ok(v) == [kind |-> "Ok", val |-> v]

\* an error of the document layer is <<kind, detail>>

\* the process ends: stack exhaustion or a panic
Abort(e) == [kind |-> "Abort", val |-> e]

Step(r, d) == [ret |-> r, doc |-> d]

Raise(d, e) ==
    Step(Err(e), [d EXCEPT !.raised = Append(@, [err |-> e, guarded |-> d.guarded > 0])])

\* what the ? operator tests
Failed(x) == x.ret.kind \in {"Err", "Abort"}

At(p) == [at |-> p, k |-> 0]

seek(d, c) == [d EXCEPT !.cur = c]

ItemsAt(f, p) == IF p \in DOMAIN f.parse THEN f.parse[p] ELSE <<>>

\* the item at the cursor
item(f, d) == ItemsAt(f, d.cur.at)[d.cur.k + 1]

\* next_object on the document's source; the raw bytes of a stream do not scan
source_next_object(f, d) ==
    IF d.cur.k >= Len(ItemsAt(f, d.cur.at)) THEN Step(NoneResult, d)
    ELSE IF item(f, d).kind \in {"Err", "Payload"}
    THEN Raise([d EXCEPT !.cur.k = @ + 1], <<"InvalidPdf", "syntax error">>)
    ELSE Step(Some(item(f, d)), [d EXCEPT !.cur.k = @ + 1])

IsSome(r, k) == r.kind = "Some" /\ r.val.kind = k

\* the ? operator: an error of x is returned at once, else F goes on with x
Try(x, F(_)) == IF Failed(x) THEN x ELSE F(x)

need_keyword_lenient(f, d, word) ==
    Try(source_next_object(f, d), LAMBDA n :
        IF IsSome(n.ret, "Keyword") /\ n.ret.val.val = word THEN Step(Ok(<<>>), n.doc)
        ELSE Step(Ok(<<>>), Raise(n.doc, <<"KeywordExpected", word>>).doc))

need_keyword(f, d, word) ==
    Try(source_next_object(f, d), LAMBDA n :
        IF IsSome(n.ret, "Keyword") /\ n.ret.val.val = word THEN Step(Ok(<<>>), n.doc)
        ELSE Raise(n.doc, <<"KeywordExpected", word>>))

need_u32(f, d, value) ==
    Try(source_next_object(f, d), LAMBDA n :
        IF IsSome(n.ret, "Integer") /\ n.ret.val.val = value THEN Step(Ok(<<>>), n.doc)
        ELSE Raise(n.doc, <<"InvalidReferenceTarget", "">>))

need_dictionary(f, d) ==
    Try(source_next_object(f, d), LAMBDA n :
        IF IsSome(n.ret, "Dictionary") THEN Step(Ok(n.ret.val.val), n.doc)
        ELSE Raise(n.doc, <<"InvalidPdf", "dictionary expected">>))

\* Dictionary::get and the peek extractors built on it
get(dict, name) == IF name \in DOMAIN dict THEN Some(dict[name]) ELSE NoneResult

get_typed(dict, name, k) ==
    IF name \in DOMAIN dict /\ dict[name].kind = k THEN Some(dict[name].val) ELSE NoneResult

get_name(dict, name) == get_typed(dict, name, "Name")

get_reference(dict, name) == get_typed(dict, name, "Reference")

get_array(dict, name) == get_typed(dict, name, "Array")

get_u32(dict, name) ==
    IF name \in DOMAIN dict /\ dict[name].kind = "Integer" THEN Some(AsU32(dict[name].val))
    ELSE NoneResult

FREE_GEN == 65535

BUFFER_SIZE == 8192

FreeEntry == [gen |-> FREE_GEN, position |-> 0]

EXPECTED_HEADER == <<B.pct, 80, 68, 70, B.minus, B.zero + 1, B.dot>>

\* source.read(&mut buffer) at offset 0 into seven zero bytes: the bytes the file
\* has are copied, the rest of the buffer stays zero
read_header(f) == [i \in 1..7 |-> IF i <= Len(f.header) THEN f.header[i] ELSE 0]

header_matches_6(buffer) == SubSeq(buffer, 1, 6) = SubSeq(EXPECTED_HEADER, 1, 6)

header_matches(buffer) == buffer = EXPECTED_HEADER

validate_pdf(f, d) ==
    IF ~header_matches(read_header(f))
    THEN Raise(seek(d, At(Len(f.header))), <<"InvalidPdf", "bad pdf header">>)
    ELSE Step(Ok(<<>>), seek(d, At(Len(f.header))))

\* the position of the first buffered byte; the buffer is the file from there on
read_tail(f, d) ==
    Step(Ok(IF f.size < BUFFER_SIZE THEN 0 ELSE f.size - BUFFER_SIZE), seek(d, At(f.size)))

\* the offsets from position on at which the bytes `trailer` occur in the file
TrailersFrom(f, position) == {i \in f.trailer_at : i >= position /\ i + 7 <= f.size}

\* buffer is the file from position on
find_trailer(f, d, position) ==
    IF f.size - position < 7 THEN Step(Abort("attempt to subtract with overflow"), d)
    ELSE IF TrailersFrom(f, position) = {} THEN Raise(d, <<"InvalidPdf", "no trailer">>)
    ELSE Step(Ok((CHOOSE i \in TrailersFrom(f, position) :
                      \A j \in TrailersFrom(f, position) : j <= i) + 7), d)

read_trailer(f, d) ==
    Try(source_next_object(f, d), LAMBDA o1 :
        IF ~IsSome(o1.ret, "Dictionary")
        THEN Raise(o1.doc, <<"InvalidPdf", "invalid pdf trailer">>)
        ELSE Try(need_keyword(f, o1.doc, "startxref"), LAMBDA kw :
             Try(source_next_object(f, kw.doc), LAMBDA o2 :
                 IF IsSome(o2.ret, "Integer")
                 THEN Step(Ok([trailer_dict |-> o1.ret.val.val,
                               startxref |-> o2.ret.val.val]), o2.doc)
                 ELSE Raise(o2.doc, <<"InvalidPdf", "invalid pdf trailer">>))))

read_xref_entry(f, d) ==
    Try(source_next_object(f, d), LAMBDA position :
    Try(source_next_object(f, position.doc), LAMBDA gen :
    Try(source_next_object(f, gen.doc), LAMBDA flag :
        IF IsSome(position.ret, "Integer") /\ IsSome(gen.ret, "Integer")
           /\ IsSome(flag.ret, "Keyword") /\ flag.ret.val.val = "n"
        THEN Step(Ok([gen |-> AsU16(gen.ret.val.val),
                      position |-> position.ret.val.val]), flag.doc)
        ELSE IF IsSome(position.ret, "Integer") /\ IsSome(gen.ret, "Integer")
                /\ IsSome(flag.ret, "Keyword") /\ flag.ret.val.val = "f"
        THEN Step(Ok(FreeEntry), flag.doc)
        ELSE Raise(flag.doc, <<"InvalidPdf", "invalid xref entry">>))))

\* `f as usize` of an i64: a usize is 64 bits wide and TLC's integers 32, so the
\* usize 2^64 + i of a negative i is held as i itself; sums are then sums, and
\* the order is the unsigned one (UsizeLt): every negative stands above every
\* non-negative
AsUsize(i) == i

UsizeLt(a, b) == IF (a < 0) = (b < 0) THEN a < b ELSE b < 0

\* a + b exceeds usize::MAX
UsizeAddOverflows(a, b) ==
    \/ a < 0 /\ b < 0
    \/ (a < 0) # (b < 0) /\ a + b >= 0

\* self.xref[index] = entry, if index < self.xref.len()
set_entry(d, index, entry) ==
    IF UsizeLt(index, Len(d.xref)) THEN [d EXCEPT !.xref[index + 1] = entry] ELSE d

\* for index in first..first + count
RECURSIVE read_xref_entries(_, _, _, _)
read_xref_entries(f, d, index, end) ==
    IF ~UsizeLt(index, end) THEN Step(Ok(<<>>), d)
    ELSE Try(read_xref_entry(f, d), LAMBDA entry :
             read_xref_entries(f, set_entry(entry.doc, index, entry.ret.val), index + 1, end))

\* the loop of read_xref.  `first + count` on usize: when the sum overflows, a
\* build with overflow checks (checked) panics and one without wraps around.
RECURSIVE read_xref_sections(_, _, _)
read_xref_sections(f, d, checked) ==
    Try(source_next_object(f, d), LAMBDA first :
    Try(source_next_object(f, first.doc), LAMBDA count :
        IF IsSome(first.ret, "Integer") /\ IsSome(count.ret, "Integer")
        THEN IF checked /\ UsizeAddOverflows(AsUsize(first.ret.val.val),
                                             AsUsize(count.ret.val.val))
             THEN Step(Abort("attempt to add with overflow"), count.doc)
             ELSE Try(read_xref_entries(f, count.doc, AsUsize(first.ret.val.val),
                                        AsUsize(first.ret.val.val)
                                        + AsUsize(count.ret.val.val)),
                      LAMBDA entries : read_xref_sections(f, entries.doc, checked))
        ELSE Step(Ok(<<>>), count.doc)))

\* Vec::resize: truncated, or filled up with free entries
resize(xref, size) ==
    [i \in 1..size |-> IF i <= Len(xref) THEN xref[i] ELSE FreeEntry]

read_xref(f, d, size, checked) ==
    Try(need_keyword(f, [d EXCEPT !.xref = resize(d.xref, size)], "xref"),
        LAMBDA kw : read_xref_sections(f, kw.doc, checked))

seek_reference(d, ref) ==
    IF ~U32Lt(ref.id, Len(d.xref)) \/ d.xref[ref.id + 1].gen = FREE_GEN
    THEN Raise(d, <<"InvalidReference", "">>)
    ELSE Step(Ok(d.xref[ref.id + 1].position), seek(d, At(d.xref[ref.id + 1].position)))

read_object(f, d, ref) ==
    Try(need_u32(f, d, ref.id), LAMBDA id :
    Try(need_u32(f, id.doc, ref.gen), LAMBDA gen :
    Try(need_keyword(f, gen.doc, "obj"), LAMBDA kw :
    Try(source_next_object(f, kw.doc), LAMBDA o :
        IF o.ret.kind = "None" THEN Raise(o.doc, <<"InvalidPdf", "pdf object expected">>)
        ELSE Try(need_keyword(f, o.doc, "endobj"), LAMBDA e : Step(Ok(o.ret.val), e.doc))))))

read_prefix(f, d, ref) ==
    Try(need_u32(f, d, ref.id), LAMBDA id :
    Try(need_u32(f, id.doc, ref.gen), LAMBDA gen :
    Try(need_keyword(f, gen.doc, "obj"), LAMBDA kw : need_dictionary(f, kw.doc))))

read_dictionary(f, d, ref) ==
    Try(read_prefix(f, d, ref), LAMBDA dictionary :
    Try(need_keyword(f, dictionary.doc, "endobj"), LAMBDA e : Step(dictionary.ret, e.doc)))

push_page_front(pages, dict) == <<dict>> \o pages

\* pages.push(dict)
push_page(pages, dict) == Append(pages, dict)

\* read_pages recurses once per level of the page tree; beyond MaxDepth nested
\* calls the stack is taken to be exhausted
RECURSIVE read_pages(_, _, _, _)
RECURSIVE read_kids(_, _, _, _, _, _)
read_pages(f, d, pages_node, depth) ==
    IF depth > MaxDepth THEN Step(Abort("stack overflow"), d)
    ELSE IF get_array(pages_node, "Kids").kind = "None"
    THEN Raise(d, <<"InvalidPdf", "Kids missing from pages node">>)
    ELSE read_kids(f, d, get_array(pages_node, "Kids").val, 1, <<>>, depth)

\* the for loop of read_pages from kid i on, pages holding what was collected
read_kids(f, d, kids, i, pages, depth) ==
    IF i > Len(kids) THEN Step(Ok(pages), d)
    ELSE IF kids[i].kind # "Reference" THEN Raise(d, <<"InvalidPdf", "invalid Kids entry">>)
    ELSE Try(seek_reference(d, kids[i].val), LAMBDA s :
         Try(read_dictionary(f, s.doc, kids[i].val), LAMBDA dict :
             IF get_name(dict.ret.val, "Type") = Some("Pages")
             THEN Try(read_pages(f, dict.doc, dict.ret.val, depth + 1), LAMBDA sub :
                      read_kids(f, sub.doc, kids, i + 1, pages \o sub.ret.val, depth))
             ELSE IF get_name(dict.ret.val, "Type") = Some("Page")
             THEN read_kids(f, dict.doc, kids, i + 1, push_page(pages, dict.ret.val), depth)
             ELSE Raise(dict.doc, <<"InvalidPdf", "invalid page tree entry">>)))

\* the names the model's files use as dictionary keys
DocNames ==
    <<"Contents", "Count", "DecodeParms", "Filter", "Info", "Kids", "Length", "Pages",
      "Parent", "Resources", "Root", "Rotate", "Size", "Type">>

Reverse(s) == [i \in 1..Len(s) |-> s[Len(s) + 1 - i]]

\* dict.into_iter(): a HashMap gives its entries in no particular order; the model
\* takes them in the order of DocNames or in the reverse of it
into_iter(dict, rev) ==
    IF rev THEN Reverse(SelectSeq(DocNames, LAMBDA n : n \in DOMAIN dict))
    ELSE SelectSeq(DocNames, LAMBDA n : n \in DOMAIN dict)

unwrap_or(r, default) == IF r.kind = "Ok" THEN r.val ELSE default

\* the call self.dereference(v) of the dictionary arm, and what is made of its
\* result: the document leaves the arm as it entered it but for cursor and errors
guarded_call(d, o) == Step(o.ret, [o.doc EXCEPT !.guarded = d.guarded])

\* dereference recurses once per level of nesting and per reference followed;
\* beyond MaxDepth nested calls the stack is taken to be exhausted
RECURSIVE dereference(_, _, _, _, _)
RECURSIVE dereference_array(_, _, _, _, _, _)
RECURSIVE dereference_entries(_, _, _, _, _, _, _)
dereference(f, d, object, rev, depth) ==
    IF depth > MaxDepth THEN Step(Abort("stack overflow"), d)
    ELSE CASE object.kind = "Reference" ->
                  Try(seek_reference(d, object.val), LAMBDA s :
                  Try(read_object(f, s.doc, object.val), LAMBDA obj :
                      dereference(f, obj.doc, obj.ret.val, rev, depth + 1)))
           [] object.kind = "Array" ->
                  dereference_array(f, d, object.val, <<>>, rev, depth)
           [] object.kind = "Dictionary" ->
                  dereference_entries(f, d, object.val, into_iter(object.val, rev),
                                      EmptyDict, rev, depth)
           [] OTHER -> Step(Ok(object), d)

\* map(|o| self.dereference(o)).collect() into a Result: stops at the first error
dereference_array(f, d, rest, done, rev, depth) ==
    IF Len(rest) = 0 THEN Step(Ok(Obj("Array", done)), d)
    ELSE Try(dereference(f, d, Head(rest), rev, depth + 1), LAMBDA o :
             dereference_array(f, o.doc, Tail(rest), Append(done, o.ret.val), rev, depth))

\* what the dictionary arm makes of the result o of dereferencing the value
\* under k: an error is replaced by Null
entry_dereferenced(f, o, dict, keys, out, rev, depth) ==
    IF o.ret.kind = "Abort" THEN o
    ELSE dereference_entries(f, o.doc, dict, Tail(keys),
                             Insert(out, Head(keys), unwrap_or(o.ret, Null)), rev, depth)

\* the map over the entries of a dictionary: the values under Parent, Contents
\* and Resources are kept, every other value is dereferenced
dereference_entries(f, d, dict, keys, out, rev, depth) ==
    IF Len(keys) = 0 THEN Step(Ok(Obj("Dictionary", out)), d)
    ELSE IF Head(keys) \in {"Parent", "Contents", "Resources"}
    THEN dereference_entries(f, d, dict, Tail(keys),
                             Insert(out, Head(keys), dict[Head(keys)]), rev, depth)
    ELSE entry_dereferenced(f,
             guarded_call(d, dereference(f, [d EXCEPT !.guarded = @ + 1],
                                         dict[Head(keys)], rev, depth + 1)),
             dict, keys, out, rev, depth)

dereference_dictionary(f, d, dictionary, rev) ==
    Try(dereference(f, d, Obj("Dictionary", dictionary), rev, 0), LAMBDA o :
        IF o.ret.val.kind = "Dictionary" THEN Step(Ok(o.ret.val.val), o.doc)
        ELSE Raise(o.doc, <<"InternalError", "unexpected result from dereference_dictionary">>))

\* the getch loop of read_stream up to the LF that ends the `stream` line; with
\* nothing after the keyword the end of the file is met first
skip_to_lf(f, d) ==
    IF d.cur.k >= Len(ItemsAt(f, d.cur.at)) THEN Raise(d, <<"EndOfFile", "">>)
    ELSE Step(Ok(<<>>), d)

\* the cursor stands at the start of a stream's raw bytes; those bytes
AtPayload(f, d) == d.cur.k < Len(ItemsAt(f, d.cur.at)) /\ item(f, d).kind = "Payload"

payload(f, d) == IF AtPayload(f, d) THEN item(f, d).val ELSE <<>>

\* the bytes of the file behind a stream's raw bytes
AFTER_RAW == <<101, 110, 100, 115, 116, 114, 101, 97, 109, B.lf, 101, 110, 100, 111, 98, 106>>

AllWhite(s) == \A i \in DOMAIN s : s[i] \in Whitespace

\* source.read(&mut buffer) with a buffer of n bytes at the start of a stream's
\* raw bytes (all the bytes up to `endstream`).  With n within them, their first
\* n bytes: the cursor stays inside them, unless white space is all that is left
\* of them, which the scanner skips up to `endstream`.  With n beyond them, the
\* bytes of the file that follow are read as well and the cursor is left inside
\* or behind `endstream`.  With n beyond the size of the file, fewer than n bytes.
read(f, d, n) ==
    CASE n <= Len(payload(f, d)) ->
             Step(Ok(SubSeq(payload(f, d), 1, n)),
                  IF AtPayload(f, d)
                     /\ AllWhite(SubSeq(payload(f, d), n + 1, Len(payload(f, d))))
                  THEN [d EXCEPT !.cur.k = @ + 1] ELSE d)
      [] n > f.size -> Step(Ok(payload(f, d)), seek(d, At(f.size)))
      [] OTHER -> Step(Ok(payload(f, d) \o SubSeq(AFTER_RAW, 1, n - Len(payload(f, d)))),
                       [d EXCEPT !.cur.k = @ + 2])

\* the inflate crate: in the model the zlib streams are the byte sequences that
\* start with 0x78, standing for the bytes after it
inflate_bytes_zlib(stream) ==
    IF Len(stream) > 0 /\ stream[1] = 120 THEN Ok(Tail(stream))
    ELSE Err("invalid zlib stream")

RECURSIVE names_to_filters(_, _, _)
names_to_filters(d, names, out) ==
    IF Len(names) = 0 THEN Step(Ok(out), d)
    ELSE IF Head(names).kind = "Name"
         THEN names_to_filters(d, Tail(names), Append(out, Head(names).val))
         ELSE Raise(d, <<"InvalidPdf", "name expected">>)

\* names.iter().zip(dps.iter()): as many pairs as the shorter of the two holds
RECURSIVE zip_filters(_, _, _, _)
zip_filters(d, names, dps, out) ==
    IF Len(names) = 0 \/ Len(dps) = 0 THEN Step(Ok(out), d)
    ELSE IF Head(names).kind = "Name" /\ Head(dps).kind = "Dictionary"
         THEN zip_filters(d, Tail(names), Tail(dps), Append(out, Head(names).val))
         ELSE Raise(d, <<"InvalidPdf", "name/dictionary expected">>)

\* the match of filters() on what is under Filter (flt) and DecodeParms (dp); a
\* Filter is held as its name (the decode parameters are never read)
match_filters(d, flt, dp) ==
    CASE IsSome(flt, "Name") /\ dp.kind = "None" -> Step(Ok(<<flt.val.val>>), d)
      [] IsSome(flt, "Name") /\ IsSome(dp, "Dictionary") -> Step(Ok(<<flt.val.val>>), d)
      [] IsSome(flt, "Array") /\ dp.kind = "None" -> names_to_filters(d, flt.val.val, <<>>)
      [] IsSome(flt, "Array") /\ IsSome(dp, "Array") ->
             zip_filters(d, flt.val.val, dp.val.val, <<>>)
      [] flt.kind = "None" /\ dp.kind = "None" -> Step(Ok(<<>>), d)
      [] OTHER -> Raise(d, <<"InvalidPdf", "invalid stream dictionary">>)

filters(d, stream_dict) ==
    match_filters(d, get(stream_dict, "Filter"), get(stream_dict, "DecodeParms"))

\* the detail of the InternalError of each filter that is not implemented
NotImplemented ==
    [ASCIIHexDecode |-> "ASCIIHexDecode filter not implemented",
     ASCII85Decode |-> "ASCII85Decode filter not implemented",
     LZWDecode |-> "LZWDecode filter not implemented",
     RunLengthDecode |-> "RunLengthDecode filter not implemented",
     CCITTFaxDecode |-> "CCITTFaxDecode filter not implemented",
     JBIG2Decode |-> "JBIG2Decode filter not implemented",
     DCTDecode |-> "JBIG2Decode filter not implemented",
     Crypt |-> "Crypt filter not implemented"]

\* the for loop of decode_stream
RECURSIVE apply_filters(_, _, _)
apply_filters(d, stream, fs) ==
    IF Len(fs) = 0 THEN Step(Ok(stream), d)
    ELSE IF Head(fs) = "FlateDecode"
         THEN IF inflate_bytes_zlib(stream).kind = "Err"
              THEN Raise(d, <<"DecompressionError", inflate_bytes_zlib(stream).val>>)
              ELSE apply_filters(d, inflate_bytes_zlib(stream).val, Tail(fs))
         ELSE IF Head(fs) \in DOMAIN NotImplemented
              THEN Raise(d, <<"InternalError", NotImplemented[Head(fs)]>>)
              ELSE Raise(d, <<"InvalidPdf", "unknown filter">>)

decode_stream(d, stream, stream_dict) ==
    Try(filters(d, stream_dict), LAMBDA fs : apply_filters(fs.doc, stream, fs.ret.val))

\* read_payload without `self.source.seek(SeekFrom::Start(pos))`
read_payload_unrestored(f, d, at, stream_dict, rev) ==
    Try(dereference_dictionary(f, d, stream_dict, rev), LAMBDA deref :
        IF get_u32(deref.ret.val, "Length").kind = "None"
        THEN Raise(deref.doc, <<"InvalidPdf", "Length missing from stream dictionary">>)
        ELSE Try(read(f, deref.doc, get_u32(deref.ret.val, "Length").val),
                 LAMBDA buffer :
             IF Len(buffer.ret.val) # get_u32(deref.ret.val, "Length").val
             THEN Raise(buffer.doc, <<"InternalError", "failed to read stream">>)
             ELSE Try(need_keyword(f, buffer.doc, "endstream"), LAMBDA e :
                      decode_stream(e.doc, buffer.ret.val, deref.ret.val))))

\* read_stream from the payload on: its start `at` is recorded, the dictionary is
\* dereferenced, the cursor is put back, /Length bytes are read and decoded
read_payload(f, d, at, stream_dict, rev) ==
    Try(dereference_dictionary(f, d, stream_dict, rev), LAMBDA deref :
        IF get_u32(deref.ret.val, "Length").kind = "None"
        THEN Raise(seek(deref.doc, at),
                   <<"InvalidPdf", "Length missing from stream dictionary">>)
        ELSE Try(read(f, seek(deref.doc, at), get_u32(deref.ret.val, "Length").val),
                 LAMBDA buffer :
             IF Len(buffer.ret.val) # get_u32(deref.ret.val, "Length").val
             THEN Raise(buffer.doc, <<"InternalError", "failed to read stream">>)
             ELSE Try(need_keyword(f, buffer.doc, "endstream"), LAMBDA e :
                      decode_stream(e.doc, buffer.ret.val, deref.ret.val))))

read_stream(f, d, ref, rev) ==
    Try(seek_reference(d, ref), LAMBDA s :
    Try(read_prefix(f, s.doc, ref), LAMBDA prefix :
    Try(need_keyword(f, prefix.doc, "stream"), LAMBDA kw :
    Try(skip_to_lf(f, kw.doc), LAMBDA line :
        read_payload(f, line.doc, line.doc.cur, prefix.ret.val, rev)))))

read_streams(f, d, streams) == Raise(d, <<"InternalError", "read_streams not implemented">>)

contents(f, d, page_dict, rev) ==
    CASE IsSome(get(page_dict, "Contents"), "Reference") ->
             read_stream(f, d, page_dict["Contents"].val, rev)
      [] IsSome(get(page_dict, "Contents"), "Array") ->
             read_streams(f, d, page_dict["Contents"].val)
      [] OTHER -> Raise(d, <<"InvalidPdf", "invalid page contents">>)

page_count(d) == Len(d.pages)

in_range_but_last(pageno, d) == U32Lt(pageno + 1, page_count(d))

\* pageno < self.pages.len() as u32
in_range(pageno, d) == U32Lt(pageno, page_count(d))

take_page(d, pageno) ==
    Step(Ok(d.pages[pageno + 1]),
         [d EXCEPT !.pages = SubSeq(@, 1, pageno) \o SubSeq(@, pageno + 2, Len(@))])

\* self.pages[pageno as usize].clone()
clone_page(d, pageno) == Step(Ok(d.pages[pageno + 1]), d)

\* the result holds the bytes of the new PageContents' source
page_contents(f, d, pageno, rev) ==
    IF in_range(pageno, d)
    THEN Try(clone_page(d, pageno), LAMBDA page_dict :
         Try(contents(f, page_dict.doc, page_dict.ret.val, rev), LAMBDA c :
             Step(Ok(PageContents_new(c.ret.val)), c.doc)))
    ELSE Raise(d, <<"InvalidPageNumber", "">>)

(***************************************************************************)
(* PdfDocument::new, in the stages of its body.  Each stage gives the      *)
(* locals of new() after it as its result.                                 *)
(***************************************************************************)
InitLocals ==
    [trailer_position |-> 0, trailer_dict |-> EmptyDict, size |-> 0,
     page_root_ref |-> [id |-> 0, gen |-> 0]]

\* let document = PdfDocument { source, xref: vec![], pages: vec![] }
NewDocument == [cur |-> At(0), xref |-> <<>>, pages |-> <<>>, raised |-> <<>>, guarded |-> 0]

\* read_tail and find_trailer
new_find_trailer(f, d, l) ==
    Try(read_tail(f, d), LAMBDA tail :
    Try(find_trailer(f, tail.doc, tail.ret.val), LAMBDA found :
        Step(Ok([l EXCEPT !.trailer_position = found.ret.val]), found.doc)))

\* seek to the trailer, read_trailer, seek to startxref, /Size
new_read_trailer(f, d, l) ==
    Try(read_trailer(f, seek(d, At(l.trailer_position))), LAMBDA t :
        IF get_u32(t.ret.val.trailer_dict, "Size").kind = "None"
        THEN Raise(seek(t.doc, At(t.ret.val.startxref)),
                   <<"InvalidPdf", "Size missing in trailer">>)
        ELSE Step(Ok([l EXCEPT !.trailer_dict = t.ret.val.trailer_dict,
                               !.size = get_u32(t.ret.val.trailer_dict, "Size").val]),
                  seek(t.doc, At(t.ret.val.startxref))))

new_read_xref(f, d, l, checked) ==
    Try(read_xref(f, d, l.size, checked), LAMBDA x : Step(Ok(l), x.doc))

\* /Root, the catalog, /Pages
new_read_catalog(f, d, l) ==
    IF get_reference(l.trailer_dict, "Root").kind = "None"
    THEN Raise(d, <<"InvalidPdf", "Root missing from trailer">>)
    ELSE Try(seek_reference(d, get_reference(l.trailer_dict, "Root").val), LAMBDA s :
         Try(read_dictionary(f, s.doc, get_reference(l.trailer_dict, "Root").val),
             LAMBDA catalog :
             IF get_reference(catalog.ret.val, "Pages").kind = "None"
             THEN Raise(catalog.doc, <<"InvalidPdf", "document page tree missing">>)
             ELSE Step(Ok([l EXCEPT !.page_root_ref =
                                        get_reference(catalog.ret.val, "Pages").val]),
                       catalog.doc)))

\* the root of the page tree and document.pages = read_pages(root)
new_read_pages(f, d, l) ==
    Try(seek_reference(d, l.page_root_ref), LAMBDA s :
    Try(read_dictionary(f, s.doc, l.page_root_ref), LAMBDA page_root :
    Try(read_pages(f, page_root.doc, page_root.ret.val, 0), LAMBDA pages :
        Step(Ok(l), [pages.doc EXCEPT !.pages = pages.ret.val]))))

(***************************************************************************)
(* The files the document is opened on.  A file is laid out as a header,   *)
(* the indirect objects 1..8 (object id at offset ObjectAt(id)), the xref  *)
(* section and the trailer; a configuration c says what is written where.  *)
(***************************************************************************)
Integer(i) == Obj("Integer", i)

Name(n) == Obj("Name", n)

\* a choice of a configuration that is no object: `what` names it
Choice(what) == Obj("Choice", what)

Kw(k) == Obj("Keyword", k)

Ref(id) == Obj("Reference", [id |-> id, gen |-> 0])

RefG(id, gen) == Obj("Reference", [id |-> id, gen |-> gen])

Arr(a) == Obj("Array", a)

Dict(d) == Obj("Dictionary", d)

Raw(b) == [kind |-> "Payload", val |-> b]

Garbage == [kind |-> "Err", val |-> <<>>]

ObjectAt(id) == 10 * id

XrefAt == ObjectAt(15)

TrailerAt == ObjectAt(20)

FileSize(c) == IF c.layout = "far_trailer" THEN BUFFER_SIZE + ObjectAt(30) ELSE ObjectAt(26)

\* id gen obj body endobj
Envelope(id, body) == <<Integer(id), Integer(0), Kw("obj"), body, Kw("endobj")>>

\* id gen obj dict stream LF raw endstream endobj
StreamEnvelope(id, dict, raw) ==
    <<Integer(id), Integer(0), Kw("obj"), Dict(dict), Kw("stream"), Raw(raw), Kw("endstream"),
      Kw("endobj")>>

With(dict, present, k, v) == IF present THEN Insert(dict, k, v) ELSE dict

Obj3(c) ==
    CASE c.obj3 = "node45" ->
             Dict([Type |-> Name("Pages"), Parent |-> Ref(2), Kids |-> Arr(<<Ref(4), Ref(5)>>)])
      [] c.obj3 = "node5" ->
             Dict([Type |-> Name("Pages"), Parent |-> Ref(2), Kids |-> Arr(<<Ref(5)>>)])
      [] c.obj3 = "leaf" ->
             Dict([Type |-> Name("Page"), Parent |-> Ref(2), Contents |-> Ref(6),
                   Rotate |-> Integer(90)])
      [] c.obj3 = "font" -> Dict([Type |-> Name("Font")])
      [] c.obj3 = "untyped" -> Dict([Kids |-> Arr(<<>>)])
      [] c.obj3 = "nokids" -> Dict([Type |-> Name("Pages"), Parent |-> Ref(2)])
      [] c.obj3 = "array" -> Arr(<<>>)
      [] c.obj3 = "loop" -> Dict([Type |-> Name("Font"), Info |-> Ref(3)])

\* the data of stream 6: `)`, after a zlib header when the stream is deflated
Data6(c) == IF c.extra = "flate" THEN <<120, B.rpar>> ELSE <<B.rpar>>

\* the raw bytes of stream 6: its data, and an end of line before `endstream`
Raw6(c) == Data6(c) \o (IF c.extra = "eol" THEN <<B.lf>> ELSE <<>>)

Dict6(c) ==
    LET length == With(EmptyDict, c.length # Choice("missing"), "Length",
                       IF c.length = Choice("ok") THEN Integer(Len(Data6(c))) ELSE c.length)
    IN CASE c.extra \in {"none", "eol"} -> length
         [] c.extra = "badref" -> Insert(length, "Info", Ref(9))
         [] c.extra = "flate" -> Insert(length, "Filter", Name("FlateDecode"))
         [] c.extra = "lzw" -> Insert(length, "Filter", Name("LZWDecode"))

Objects(c) ==
    (ObjectAt(1) :> Envelope(1, Dict(With([Type |-> Name("Catalog")],
                                          c.layout # "catalog_no_pages", "Pages", Ref(2)))))
    @@ (ObjectAt(2) :> Envelope(2, Dict([Type |-> Name("Pages"), Kids |-> Arr(c.kids),
                                         Count |-> Integer(Len(c.kids))])))
    @@ (ObjectAt(3) :> Envelope(3, Obj3(c)))
    @@ (ObjectAt(4) :> Envelope(4, Dict(With([Type |-> Name("Page"), Parent |-> Ref(2)],
                                             c.contents # Choice("missing"), "Contents", c.contents))))
    @@ (ObjectAt(5) :> [Envelope(5, Dict([Type |-> Name("Page"), Parent |-> Ref(3),
                                          Contents |-> Ref(8), Rotate |-> Integer(180)]))
                           EXCEPT ![2] = Integer(c.gen5)])
    @@ (ObjectAt(6) :> StreamEnvelope(6, Dict6(c), Raw6(c)))
    @@ (ObjectAt(7) :> Envelope(7, Integer(Len(Data6(c)))))
    @@ (ObjectAt(8) :> StreamEnvelope(8, [Length |-> Integer(2)], <<B.rpar, B.rpar>>))

\* the line of the xref section for object id
XrefLine(c, id) ==
    IF id = 0 \/ (c.layout = "page4_free" /\ id = 4) THEN <<Integer(0), Integer(65535), Kw("f")>>
    ELSE IF c.layout = "bad_entry" /\ id = 2 THEN <<Integer(ObjectAt(id)), Integer(0), Kw("obj")>>
    ELSE IF c.layout = "lex_error" /\ id = 2 THEN <<Integer(ObjectAt(id)), Garbage, Kw("n")>>
    ELSE IF id = 5 THEN <<Integer(ObjectAt(id)), Integer(c.xgen5), Kw("n")>>
    ELSE <<Integer(ObjectAt(id)), Integer(0), Kw("n")>>

RECURSIVE XrefLines(_, _, _)
XrefLines(c, id, n) == IF id >= n THEN <<>> ELSE XrefLine(c, id) \o XrefLines(c, id + 1, n)

TrailerDict(c) ==
    With(With(EmptyDict, c.layout # "size_missing", "Size",
              Integer(IF c.layout = "small_size" THEN 5 ELSE 9)),
         c.layout # "root_missing", "Root", Ref(IF c.layout = "root_free" THEN 0 ELSE 1))

\* what follows the bytes `trailer`
Trailer(c) ==
    CASE c.layout = "trailer_not_dict" -> <<Integer(1)>>
      [] c.layout = "no_startxref" -> <<Dict(TrailerDict(c)), Kw("xref")>>
      [] c.layout = "startxref_not_int" -> <<Dict(TrailerDict(c)), Kw("startxref"), Name("Root")>>
      [] OTHER -> <<Dict(TrailerDict(c)), Kw("startxref"), Integer(XrefAt)>>

\* a subsection: `first count` and its lines
Sub(first, count, lines) == <<Integer(first), Integer(count)>> \o lines

\* a line that differs from every XrefLine
AltLine == <<Integer(ObjectAt(5)), Integer(7), Kw("n")>>

\* two subsections, objects 0..3 and 4..8, unless the layout is about subsections
Subsections(c) ==
    CASE c.layout = "xref_overlap" ->
             Sub(0, 4, XrefLines(c, 0, 4)) \o Sub(4, 5, XrefLines(c, 4, 9))
             \o Sub(3, 2, XrefLine(c, 0) \o AltLine)
      [] c.layout = "xref_gap" ->
             Sub(0, 4, XrefLines(c, 0, 4)) \o Sub(6, 3, XrefLines(c, 6, 9))
      [] c.layout = "xref_zero_count" ->
             Sub(0, 4, XrefLines(c, 0, 4)) \o Sub(6, 0, <<>>) \o Sub(4, 5, XrefLines(c, 4, 9))
      [] c.layout = "xref_neg_count" ->
             Sub(0, 4, XrefLines(c, 0, 4)) \o Sub(2, -1, <<>>) \o Sub(4, 5, XrefLines(c, 4, 9))
      [] c.layout = "xref_neg_first" ->
             Sub(0, 4, XrefLines(c, 0, 4)) \o Sub(-1, 1, XrefLine(c, 1))
             \o Sub(4, 5, XrefLines(c, 4, 9))
      [] c.layout = "xref_neg_range" ->
             Sub(0, 4, XrefLines(c, 0, 4)) \o Sub(-5, 2, AltLine \o AltLine)
             \o Sub(4, 5, XrefLines(c, 4, 9))
      [] c.layout = "xref_huge_count" ->
             Sub(0, -5, XrefLines(c, 0, 4)) \o Sub(4, 5, XrefLines(c, 4, 9))
      [] OTHER -> Sub(0, 4, XrefLines(c, 0, 4)) \o Sub(4, 5, XrefLines(c, 4, 9))

XrefSection(c) ==
    (IF c.layout = "no_xref_kw" THEN <<>> ELSE <<Kw("xref")>>)
    \o Subsections(c)
    \o <<Kw("trailer")>> \o Trailer(c)

\* a file shorter than its header is nothing but those bytes
File(c) ==
    IF Len(c.header) < 7
    THEN [header |-> c.header, size |-> Len(c.header), trailer_at |-> {},
          parse |-> [p \in {} |-> <<>>]]
    ELSE [header |-> c.header,
          size |-> FileSize(c),
          trailer_at |-> CASE c.layout = "no_trailer" -> {}
                           [] c.layout = "two_trailers" -> {ObjectAt(9), TrailerAt}
                           [] OTHER -> {TrailerAt},
          parse |-> Objects(c) @@ (XrefAt :> XrefSection(c)) @@ (TrailerAt + 7 :> Trailer(c))
                    @@ (ObjectAt(9) + 7 :> <<Garbage>>)]

Base ==
    [header |-> EXPECTED_HEADER, kids |-> <<Ref(4), Ref(5)>>, obj3 |-> "leaf",
     contents |-> Ref(6), length |-> Choice("ok"), extra |-> "none", layout |-> "ok",
     gen5 |-> 0, xgen5 |-> 0]

\* the header right, cut short, or with one byte changed
Headers ==
    {SubSeq(EXPECTED_HEADER, 1, n) : n \in 0..7}
    \cup {[EXPECTED_HEADER EXCEPT ![i] = B.lowa + 23] : i \in 1..7}

KidChoices == {Ref(3), Ref(4), Ref(5), Integer(4), Ref(2)}

Obj3Choices == {"node45", "node5", "leaf", "font", "untyped", "nokids", "array"}

ContentsChoices ==
    {Ref(6), Arr(<<Ref(6), Ref(8)>>), Arr(<<Ref(8)>>), Arr(<<>>), Integer(6), Choice("missing"),
     Ref(9), Ref(1), Ref(7)}

LengthChoices ==
    {Choice("ok"), Choice("missing"), Ref(7), Ref(9), Ref(0), Ref(4), Integer(9999), Integer(0),
     Integer(1), Integer(2), Integer(3)}

ExtraChoices == {"none", "badref", "flate", "lzw", "eol"}

Layouts ==
    {"ok", "no_trailer", "far_trailer", "two_trailers", "trailer_not_dict", "no_startxref",
     "startxref_not_int", "size_missing", "small_size", "no_xref_kw", "bad_entry",
     "lex_error", "root_missing", "root_free", "catalog_no_pages", "page4_free",
     "xref_overlap", "xref_gap", "xref_zero_count", "xref_neg_count", "xref_neg_first",
     "xref_neg_range", "xref_huge_count"}

Files ==
    {File([Base EXCEPT !.header = h]) : h \in Headers}
    \cup {File([Base EXCEPT !.kids = k, !.obj3 = o]) :
              k \in BoundedSeq(KidChoices, MaxKids), o \in Obj3Choices}
    \cup {File([Base EXCEPT !.contents = x]) : x \in ContentsChoices}
    \cup {File([Base EXCEPT !.length = n, !.extra = e]) :
              n \in LengthChoices, e \in ExtraChoices}
    \cup {File([Base EXCEPT !.layout = y]) : y \in Layouts}
    \cup {File([Base EXCEPT !.length = Ref(3), !.obj3 = "loop"])}
    \cup {File([Base EXCEPT !.kids = <<k>>, !.gen5 = g, !.xgen5 = x]) :
              k \in {Ref(5), RefG(5, FREE_GEN)}, g \in {0, FREE_GEN}, x \in {0, FREE_GEN}}

(***************************************************************************)
(* The document as a state machine: PdfDocument::new stage by stage, then  *)
(* page_count and page_contents called in any order with any arguments.    *)
(***************************************************************************)
\* no page contents iterator is involved
NoScanner ==
    /\ bytes = <<>>
    /\ pos = 0
    /\ caller = "none"
    /\ pc = "none"
    /\ loc = InitLoc
    /\ frames = <<>>
    /\ token = NotCalled
    /\ result = NotCalled

Operation(op, arg, rev, ret) == [op |-> op, arg |-> arg, rev |-> rev, ret |-> ret]

Init ==
    /\ file \in Files
    /\ doc = NewDocument
    /\ dpc = "validate_pdf"
    /\ locals = InitLocals
    /\ last = Operation("new", 0, FALSE, Pending)
    /\ NoScanner

\* where control is after an operation or a stage of new() that returned r
After(r, next) ==
    IF r.ret.kind = "Abort" THEN "aborted" ELSE IF r.ret.kind = "Err" THEN "failed" ELSE next

\* a stage of new() gave r: on an error new() returns it
Stage(r, next) ==
    /\ doc' = r.doc
    /\ dpc' = After(r, next)
    /\ locals' = IF Failed(r) \/ next = "read_tail" THEN locals ELSE r.ret.val
    /\ last' = IF Failed(r) THEN [last EXCEPT !.ret = r.ret]
               ELSE IF next = "open" THEN [last EXCEPT !.ret = Ok(<<>>)]
               ELSE last
    /\ UNCHANGED <<file, scan_vars>>

\* an operation on the open document returned r
Returns(op, arg, rev, r) ==
    /\ doc' = r.doc
    /\ dpc' = After(r, "open")
    /\ last' = Operation(op, arg, rev, r.ret)

ValidatePdf == dpc = "validate_pdf" /\ Stage(validate_pdf(file, doc), "read_tail")

FindTrailer == dpc = "read_tail" /\ Stage(new_find_trailer(file, doc, locals), "read_trailer")

ReadTrailer == dpc = "read_trailer" /\ Stage(new_read_trailer(file, doc, locals), "read_xref")

ReadXref ==
    /\ dpc = "read_xref"
    /\ \E checked \in BOOLEAN : Stage(new_read_xref(file, doc, locals, checked), "read_catalog")

ReadCatalog == dpc = "read_catalog" /\ Stage(new_read_catalog(file, doc, locals), "read_pages")

ReadPages == dpc = "read_pages" /\ Stage(new_read_pages(file, doc, locals), "open")

PageCount ==
    /\ dpc = "open"
    /\ Returns("page_count", 0, FALSE, Step(Ok(page_count(doc)), [doc EXCEPT !.raised = <<>>]))
    /\ UNCHANGED <<file, locals, scan_vars>>

PageContents ==
    /\ dpc = "open"
    /\ \E pageno \in 0..MaxPageNo, rev \in BOOLEAN :
          Returns("page_contents", pageno, rev,
                  page_contents(file, [doc EXCEPT !.raised = <<>>], pageno, rev))
    /\ UNCHANGED <<file, locals, scan_vars>>

Next ==
    \/ ValidatePdf
    \/ FindTrailer
    \/ ReadTrailer
    \/ ReadXref
    \/ ReadCatalog
    \/ ReadPages
    \/ PageCount
    \/ PageContents

Spec == Init /\ [][Next]_vars

(***************************************************************************)
(* Claims about the document.                                              *)
(***************************************************************************)
InvalidPageNumber == Err(<<"InvalidPageNumber", "">>)

\* C3: page_contents(index) fails with InvalidPageNumber for every index >=
\* page_count(), and never with InvalidPageNumber for an index < page_count().
C3_InvalidPageNumberIffOutOfRange ==
    last.op = "page_contents" =>
        (last.ret = InvalidPageNumber <=> last.arg >= page_count(doc))

C3_Witness ==
    /\ last.op = "page_contents"
    /\ page_count(doc) > 0
    /\ last.arg >= page_count(doc)
    /\ last.ret = InvalidPageNumber

\* the concatenation, in array order, of what read_stream gives for each stream
RECURSIVE DecodedConcat(_, _, _, _, _)
DecodedConcat(f, d, streams, rev, out) ==
    IF Len(streams) = 0 THEN Some(out)
    ELSE IF Head(streams).kind # "Reference" THEN NoneResult
    ELSE IF read_stream(f, d, Head(streams).val, rev).ret.kind # "Ok" THEN NoneResult
    ELSE DecodedConcat(f, d, Tail(streams), rev,
                       out \o read_stream(f, d, Head(streams).val, rev).ret.val)

\* the last call was page_contents on a page whose /Contents is an array
ContentsArrayCalled ==
    /\ last.op = "page_contents"
    /\ in_range(last.arg, doc)
    /\ get_array(doc.pages[last.arg + 1], "Contents").kind = "Some"

\* C4: for a page whose /Contents is an array of stream references (each of them
\* readable), page_contents yields an iterator over the concatenation, in array
\* order, of the decoded bytes of each stream.
C4_ContentsArrayConcatenated ==
    ContentsArrayCalled =>
        LET expected == DecodedConcat(file, doc, get_array(doc.pages[last.arg + 1],
                                                           "Contents").val, last.rev, <<>>)
        IN expected.kind = "Some" => last.ret = Ok(PageContents_new(expected.val))

\* an operation on the document has returned to its caller
OperationReturned == last.ret.kind \in {"Ok", "Err"}

\* the errors of the last operation raised outside dereference()'s dictionary arm
Unguarded == {i \in DOMAIN doc.raised : ~doc.raised[i].guarded}

\* C5 as stated: every error raised inside open or page_contents (the dereference
\* pass of a stream dictionary included) aborts the operation and is the error
\* returned; none is caught and replaced.
C5_FailFast ==
    OperationReturned =>
        \/ doc.raised = <<>> /\ last.ret.kind = "Ok"
        \/ Len(doc.raised) = 1 /\ last.ret = Err(doc.raised[1].err)

\* C5, amended: an error raised outside the dereference of a stream-dictionary
\* entry aborts the operation and is the error returned; an error raised while
\* such an entry is dereferenced is caught (the entry becomes Null) and the
\* operation goes on; open raises none of the latter.
C5_FailFastOutsideDereference ==
    OperationReturned =>
        /\ last.ret.kind = "Err" =>
               Unguarded = {Len(doc.raised)} /\ last.ret.val = doc.raised[Len(doc.raised)].err
        /\ last.ret.kind = "Ok" => Unguarded = {}
        /\ last.op # "page_contents" => Unguarded = DOMAIN doc.raised

\* page_contents succeeded although an error was raised and caught on the way
C5_Witness ==
    /\ last.op = "page_contents"
    /\ last.ret.kind = "Ok"
    /\ doc.raised # <<>>

\* C6: once open has returned a document, no page_count or page_contents call
\* changes the xref table or the page vector.
C6_XrefAndPagesFrozen ==
    [][dpc = "open" => doc'.xref = doc.xref /\ doc'.pages = doc.pages]_vars

\* a page_contents call has read a stream (the cursor is past its payload)
C6_Witness ==
    /\ dpc = "open"
    /\ last.op = "page_contents"
    /\ last.ret.kind = "Ok"
    /\ doc.cur.at = ObjectAt(6)
    /\ doc.pages # <<>>

\* what the file holds as indirect object id
Body(f, id) ==
    IF ObjectAt(id) \in DOMAIN f.parse /\ Len(f.parse[ObjectAt(id)]) >= 4
    THEN f.parse[ObjectAt(id)][4]
    ELSE Null

IsNode(o, type) ==
    o.kind = "Dictionary" /\ "Type" \in DOMAIN o.val /\ o.val["Type"] = Name(type)

KidsOf(o) ==
    IF "Kids" \in DOMAIN o.val /\ o.val["Kids"].kind = "Array" THEN o.val["Kids"].val
    ELSE <<>>

\* the /Page leaves below the /Pages node o, depth first, kids left to right
RECURSIVE Leaves(_, _, _)
RECURSIVE LeavesOfKids(_, _, _)
Leaves(f, o, fuel) == IF fuel = 0 THEN <<>> ELSE LeavesOfKids(f, KidsOf(o), fuel)

LeavesOfKids(f, kids, fuel) ==
    IF Len(kids) = 0 THEN <<>>
    ELSE (IF Head(kids).kind # "Reference" THEN <<>>
          ELSE IF IsNode(Body(f, Head(kids).val.id), "Page")
               THEN <<Body(f, Head(kids).val.id).val>>
          ELSE IF IsNode(Body(f, Head(kids).val.id), "Pages")
               THEN Leaves(f, Body(f, Head(kids).val.id), fuel - 1)
          ELSE <<>>)
         \o LeavesOfKids(f, Tail(kids), fuel)

\* every kid below the /Pages node o is a reference to a /Pages or /Page node
RECURSIVE WellFormed(_, _, _)
WellFormed(f, o, fuel) ==
    /\ fuel > 0
    /\ "Kids" \in DOMAIN o.val
    /\ \A i \in DOMAIN KidsOf(o) :
          /\ KidsOf(o)[i].kind = "Reference"
          /\ \/ IsNode(Body(f, KidsOf(o)[i].val.id), "Page")
             \/ /\ IsNode(Body(f, KidsOf(o)[i].val.id), "Pages")
                /\ WellFormed(f, Body(f, KidsOf(o)[i].val.id), fuel - 1)

Root(f) == Body(f, locals.page_root_ref.id)

\* C7: after a successful open the page list is the /Page leaves reachable from
\* the root /Pages node in depth-first left-to-right order, page_count() is their
\* number, and every kid met is a reference to a /Pages or /Page node.
C7_PagesAreLeavesInOrder ==
    dpc = "open" =>
        /\ WellFormed(file, Root(file), MaxDepth + 1)
        /\ doc.pages = Leaves(file, Root(file), MaxDepth + 1)
        /\ page_count(doc) = Len(Leaves(file, Root(file), MaxDepth + 1))

\* a tree with an inner node: three leaves or more, not all the same
C7_Witness ==
    /\ dpc = "open"
    /\ page_count(doc) >= 3
    /\ doc.pages[1] # doc.pages[2]

BadHeader == Err(<<"InvalidPdf", "bad pdf header">>)

\* C8: on a source whose first 7 bytes are not `%PDF-1.` (a shorter source
\* included) open fails with InvalidPdf("bad pdf header"), and no later stage of
\* open (trailer, xref) is ever entered.
C8_BadHeaderFailsFirst ==
    file.header # EXPECTED_HEADER =>
        /\ dpc \in {"validate_pdf", "failed"}
        /\ dpc = "failed" =>
              /\ last = Operation("new", 0, FALSE, BadHeader)
              /\ doc.xref = <<>>
              /\ locals = InitLocals

\* a source shorter than the header, failed
C8_Witness ==
    /\ dpc = "failed"
    /\ Len(file.header) \in 1..6
    /\ last.ret = BadHeader

(***************************************************************************)
(* Literal strings: next_token on a byte slice source holding ( body ).    *)
(***************************************************************************)
StringAlphabet ==
    {B.bslash, B.lown, B.lowr, B.lowt, B.lowb, B.lowf, B.lpar, B.rpar, B.lowa, B.zero + 1}

StringSource(body) == <<B.lpar>> \o body \o <<B.rpar>>

InitString ==
    /\ bytes \in {StringSource(body) : body \in BoundedSeq(StringAlphabet, MaxStringLen)}
    /\ pos = 0
    /\ caller = "next_token"
    /\ pc = "idle"
    /\ loc = InitLoc
    /\ frames = <<>>
    /\ token = NotCalled
    /\ result = NotCalled
    /\ NoDocument

NextString == Call \/ SkipWhitespaceStep \/ NextTokenDispatch \/ StringStep

SpecString == InitString /\ [][NextString]_vars

\* the byte each named escape stands for
EscapeByte ==
    (B.lown :> B.lf) @@ (B.lowr :> B.cr) @@ (B.lowt :> B.tab) @@ (B.lowb :> 8)
    @@ (B.lowf :> B.ff) @@ (B.lpar :> B.lpar) @@ (B.rpar :> B.rpar) @@ (B.bslash :> B.bslash)

\* string() is about to read a backslash that another byte follows
AtEscape == pc = "string" /\ pos + 2 <= Len(bytes) /\ bytes[pos + 1] = B.bslash

\* C11: in a literal string each of \n \r \t \b \f \( \) \\ appends exactly its one
\* byte (0A 0D 09 08 0C 28 29 5C) and leaves the nesting alone; a backslash before
\* any other byte that is no octal digit appends nothing.
C11_EscapesContributeOneByte ==
    [][(AtEscape /\ ~IsOctal(bytes[pos + 2])) =>
         /\ pos' = pos + 2
         /\ loc'.nesting = loc.nesting
         /\ bytes[pos + 2] \in DOMAIN EscapeByte =>
                loc'.text = Append(loc.text, EscapeByte[bytes[pos + 2]])
         /\ bytes[pos + 2] \notin DOMAIN EscapeByte => loc'.text = loc.text]_vars

(***************************************************************************)
(* Claims about composites (next_object.rs).                               *)
(***************************************************************************)
\* this step ends the innermost open array or dictionary with an object
CompositeClosed ==
    /\ frames # <<>>
    /\ \/ Len(frames') = Len(frames) - 1 /\ frames' # <<>>
       \/ Len(frames) = 1 /\ frames' = <<>> /\ result'.kind = "Some"

\* the token that closes a composite of this kind
Closer(kind) == IF kind = "array" THEN "EndArray" ELSE "EndDictionary"

\* C12: an Array is closed by an EndArray token and a Dictionary by an
\* EndDictionary token, never by the other closer or by the end of input, and no
\* closer is handed to the caller as an object.
C12_ClosedByMatchingCloser ==
    [][/\ CompositeClosed =>
             /\ token'.kind = "Some"
             /\ token'.val.kind = Closer(frames[Len(frames)].kind)
       /\ result'.kind = "Some" => result'.val.kind \notin {"EndArray", "EndDictionary"}]_vars

(***************************************************************************)
(* Dictionaries: next_object on << /K v /K v ... >>, the pairs in any      *)
(* order and the tokens set apart by any whitespace.                       *)
(***************************************************************************)
DictKeys == {<<65, 65>>, <<68, 76>>, <<73, 68>>}

DictValues == {1, 2}

Gaps == {<<B.sp>>, <<B.lf, B.tab>>}

EdgeGaps == {<<>>, <<B.sp>>}

\* / key gap value
PairText(k, v, gap) == <<B.slash>> \o k \o gap \o <<B.zero + v>>

RECURSIVE PairsText(_, _, _, _)
PairsText(keys, vals, inner, after) ==
    IF Len(keys) = 0 THEN <<>>
    ELSE PairText(Head(keys), Head(vals), Head(inner))
         \o (IF Len(keys) = 1 THEN <<>> ELSE Head(after))
         \o PairsText(Tail(keys), Tail(vals), Tail(inner), Tail(after))

DictSource(keys, vals, inner, after, open, close) ==
    <<B.lt, B.lt>> \o open \o PairsText(keys, vals, inner, after) \o close \o <<B.gt, B.gt>>

\* the sequences over S of length n
SeqsOf(S, n) == {q \in BoundedSeq(S, n) : Len(q) = n}

DictSources ==
    UNION {{DictSource(keys, vals, inner, after, open, close) :
               keys \in {ks \in SeqsOf(DictKeys, n) :
                            \A i, j \in DOMAIN ks : i # j => ks[i] # ks[j]},
               vals \in SeqsOf(DictValues, n),
               inner \in SeqsOf(Gaps, n),
               after \in SeqsOf(Gaps \cup {<<>>}, n),
               open \in EdgeGaps, close \in EdgeGaps} : n \in 0..MaxPairs}

InitDict ==
    /\ bytes \in DictSources
    /\ pos = 0
    /\ caller = "next_object"
    /\ pc = "idle"
    /\ loc = InitLoc
    /\ frames = <<>>
    /\ token = NotCalled
    /\ result = NotCalled
    /\ NoDocument

NextDict == Call \/ SkipWhitespaceStep \/ NextTokenDispatch \/ NameStep \/ NumberStep

SpecDict == InitDict /\ [][NextDict]_vars

\* the dictionary the pairs written in b make, whatever their order: b without
\* its whitespace and angle brackets is a run of / K K v
Written(b) == SelectSeq(b, LAMBDA ch : ch \notin Whitespace \cup {B.lt, B.gt})

ExpectedDictionary(b) ==
    LET t == Written(b)
        at(k) == CHOOSE i \in 1..(Len(t) \div 4) : NAMES[SubSeq(t, 4 * i - 2, 4 * i - 1)] = k
    IN [k \in {NAMES[SubSeq(t, 4 * i - 2, 4 * i - 1)] : i \in 1..(Len(t) \div 4)} |->
           Obj("Integer", t[4 * at(k)] - B.zero)]

FilterNames ==
    {"ASCIIHexDecode", "ASCII85Decode", "LZWDecode", "FlateDecode", "RunLengthDecode",
     "CCITTFaxDecode", "JBIG2Decode", "DCTDecode", "Crypt", "JPXDecode"}

\* ) deflated once, deflated twice, and not deflated at all
Payloads == {<<120, B.rpar>>, <<120, 120, B.rpar>>, <<B.rpar>>}

StreamDictionaries ==
    {EmptyDict}
    \cup {Insert(EmptyDict, "Filter", Obj("Name", n)) : n \in FilterNames}
    \cup {Insert(EmptyDict, "Filter", Obj("Array", [i \in DOMAIN chain |-> Obj("Name", chain[i])])) :
             chain \in BoundedSeq(FilterNames, MaxFilters)}
    \cup {Insert(Insert(EmptyDict, "Filter",
                         Obj("Array", [i \in DOMAIN chain |-> Obj("Name", chain[i])])),
                  "DecodeParms", Obj("Array", [i \in 1..n |-> Obj("Dictionary", EmptyDict)])) :
             chain \in BoundedSeq(FilterNames, MaxFilters), n \in 0..MaxFilters}

InitDecode ==
    /\ file \in {[stream |-> bs, stream_dict |-> sd] :
                    bs \in Payloads, sd \in StreamDictionaries}
    /\ doc = NewDocument
    /\ dpc = "decode_stream"
    /\ locals = InitLocals
    /\ last = Operation("decode_stream", 0, FALSE, Pending)
    /\ NoScanner

DecodeStream ==
    /\ dpc = "decode_stream"
    /\ doc' = decode_stream(doc, file.stream, file.stream_dict).doc
    /\ last' = Operation("decode_stream", 0, FALSE,
                         decode_stream(doc, file.stream, file.stream_dict).ret)
    /\ dpc' = "decoded"
    /\ UNCHANGED <<file, locals, scan_vars>>

NextDecode == DecodeStream

SpecDecode == InitDecode /\ [][NextDecode]_vars

\* the filter names of a stream dictionary, in order
Chain(dict) ==
    IF "Filter" \notin DOMAIN dict THEN <<>>
    ELSE IF dict["Filter"].kind = "Name" THEN <<dict["Filter"].val>>
    ELSE [i \in DOMAIN dict["Filter"].val |-> dict["Filter"].val[i].val]

NonFlate(chain) == SelectSeq(chain, LAMBDA n : n # "FlateDecode")

\* the filters that are recognized and not implemented, with the detail that
\* names each
NamedDetail ==
    [ASCIIHexDecode |-> "ASCIIHexDecode filter not implemented",
     ASCII85Decode |-> "ASCII85Decode filter not implemented",
     LZWDecode |-> "LZWDecode filter not implemented",
     RunLengthDecode |-> "RunLengthDecode filter not implemented",
     CCITTFaxDecode |-> "CCITTFaxDecode filter not implemented",
     JBIG2Decode |-> "JBIG2Decode filter not implemented",
     DCTDecode |-> "DCTDecode filter not implemented",
     Crypt |-> "Crypt filter not implemented"]

IsNotImplemented(r) ==
    /\ r.kind = "Err"
    /\ r.val[1] = "InternalError"
    /\ r.val[2] \in {NamedDetail[n] : n \in DOMAIN NamedDetail}

\* C14: when the first filter of the chain that is not FlateDecode is one of the
\* eight recognized, unimplemented filters, decode_stream fails with the
\* not-implemented error that names that filter; a chain of FlateDecode filters
\* only, or no /Filter, never gives a not-implemented error.
C14_NotImplementedNamesFilter ==
    dpc = "decoded" =>
        LET rest == NonFlate(Chain(file.stream_dict))
        IN IF rest = <<>> THEN ~IsNotImplemented(last.ret)
           ELSE Head(rest) \in DOMAIN NamedDetail =>
                    last.ret = Err(<<"InternalError", NamedDetail[Head(rest)]>>)

(***************************************************************************)
(* Claims about references.                                               *)
(***************************************************************************)
\* a reference the document can resolve: its generation is not 0xFFFF and its id
\* is the index of an xref slot that is not free
Resolvable(r) ==
    /\ r.gen # FREE_GEN
    /\ U32Lt(r.id, Len(doc.xref))
    /\ doc.xref[r.id + 1].gen # FREE_GEN

\* the references open resolved to pages: the kids of the root node
KidsResolved ==
    {KidsOf(Root(file))[i].val : i \in DOMAIN KidsOf(Root(file))}

\* C15: a reference whose generation is 0xFFFF, whose id is not below xref.len()
\* or whose xref slot is free is never resolved: open fails when a kid is such a
\* reference, page_contents fails when /Contents is one.
C15_UnresolvableNeverResolved ==
    /\ dpc = "open" => \A r \in KidsResolved : Resolvable(r)
    /\ (last.op = "page_contents" /\ last.ret.kind = "Ok") =>
           Resolvable(get_reference(doc.pages[last.arg + 1], "Contents").val)

(***************************************************************************)
(* Claims about the cross-reference table.                                 *)
(***************************************************************************)
\* what the file holds at the offset startxref names, after the keyword `xref`
XrefItems == Tail(file.parse[XrefAt])

IsPair(items, i) ==
    i + 1 <= Len(items) /\ items[i].kind = "Integer" /\ items[i + 1].kind = "Integer"

\* the lines of the subsections from item i on, each with the index it is
\* addressed to: a subsection `first count` is followed by count lines of three
\* objects, addressed to first, first + 1, ...; a count below one has no line
RECURSIVE AddressedLines(_, _)
AddressedLines(items, i) ==
    IF ~IsPair(items, i) THEN <<>>
    ELSE LET first == items[i].val
             count == IF items[i + 1].val < 0 THEN 0 ELSE items[i + 1].val
         IN [k \in 1..count |->
                [index |-> first + k - 1,
                 line |-> SubSeq(items, i + 3 * k - 1, i + 3 * k + 1)]]
            \o AddressedLines(items, i + 2 + 3 * count)

\* the entry a line stands for
EntryOf(line) ==
    IF line[3] = Kw("f") THEN FreeEntry
    ELSE [gen |-> line[2].val, position |-> line[1].val]

\* the entry of the last line addressed to i, the free entry when there is none
ExpectedSlot(lines, i) ==
    LET hits == {k \in DOMAIN lines : lines[k].index = i}
    IN IF hits = {} THEN FreeEntry
       ELSE EntryOf(lines[CHOOSE k \in hits : \A j \in hits : j <= k].line)

\* new() is past read_xref: read_xref returned Ok
ReadXrefSucceeded == dpc \in {"read_catalog", "read_pages", "open"}

\* C16: after read_xref succeeds with trailer /Size = S, xref has exactly S slots
\* and slot i holds the entry of the last subsection line addressed to i, or the
\* free entry when no line is addressed to i; lines addressed to S or above
\* change nothing.
C16_XrefHoldsLastLine ==
    ReadXrefSucceeded =>
        /\ Len(doc.xref) = locals.size
        /\ \A i \in 0..(locals.size - 1) :
               doc.xref[i + 1] = ExpectedSlot(AddressedLines(XrefItems, 1), i)

\* where the subsections that start at item i end: the index of the first item
\* that does not start a `first count` pair, each pair being followed by count
\* lines of three objects
RECURSIVE SubsectionsEnd(_, _)
SubsectionsEnd(items, i) ==
    IF ~IsPair(items, i) THEN i
    ELSE SubsectionsEnd(items, i + 2 + 3 * (IF items[i + 1].val < 0 THEN 0
                                             ELSE items[i + 1].val))

\* the objects read_xref has read when it returns Ok: `xref`, the subsections
\* and the two objects that are no pair of integers
ObjectsRead ==
    LET n == SubsectionsEnd(XrefItems, 1) + 2
    IN IF n < Len(file.parse[XrefAt]) THEN n ELSE Len(file.parse[XrefAt])

\* C17: read_xref terminates for every pair of integers (first, count), zero and
\* negative ones included, and never panics; when it returns Ok it has read, for
\* each pair, exactly count entries of three objects and has stopped at the first
\* two objects that are no pair of integers.
C17_ReadsCountEntries ==
    /\ last.ret # Abort("attempt to add with overflow")
    /\ dpc = "read_catalog" => doc.cur = [at |-> XrefAt, k |-> ObjectsRead]

(***************************************************************************)
(* find_trailer as a function of a base position and a byte buffer.        *)
(***************************************************************************)
TRAILER == <<116, 114, 97, 105, 108, 101, 114>>

\* buffers are made of at most MaxChunks chunks: the word, the word without its
\* first byte, its first byte and a blank
Chunks == {TRAILER, Tail(TRAILER), <<116>>, <<B.sp>>}

RECURSIVE Flatten(_)
Flatten(chunks) == IF chunks = <<>> THEN <<>> ELSE Head(chunks) \o Flatten(Tail(chunks))

Buffers == {Flatten(chunks) : chunks \in BoundedSeq(Chunks, MaxChunks)}

\* for i in (0..=buffer.len() - trailer.len()).rev(): a buffer shorter than the
\* word makes the subtraction overflow; a build with overflow checks (checked)
\* panics there, one without goes on to slice the buffer from an index behind
\* its end and panics there
find_trailer_bytes(position, buffer, checked) ==
    IF Len(buffer) < Len(TRAILER)
    THEN IF checked THEN Abort("attempt to subtract with overflow")
         ELSE Abort("slice index out of range")
    ELSE LET found == {i \in 0..(Len(buffer) - Len(TRAILER)) :
                          SubSeq(buffer, i + 1, i + Len(TRAILER)) = TRAILER}
         IN IF found = {} THEN Err(<<"InvalidPdf", "no trailer">>)
            ELSE Ok((CHOOSE i \in found : \A j \in found : j <= i) + position + Len(TRAILER))

InitTrailer ==
    /\ file \in {[position |-> p, buffer |-> b] : p \in {0, 1000}, b \in Buffers}
    /\ doc = NewDocument
    /\ dpc = "find_trailer"
    /\ locals = InitLocals
    /\ last = Operation("find_trailer", 0, FALSE, Pending)
    /\ NoScanner

FindTrailerBytes ==
    /\ dpc = "find_trailer"
    /\ \E checked \in BOOLEAN :
           last' = Operation("find_trailer", 0, FALSE,
                             find_trailer_bytes(file.position, file.buffer, checked))
    /\ dpc' = "found"
    /\ UNCHANGED <<file, doc, locals, scan_vars>>

NextTrailer == FindTrailerBytes

SpecTrailer == InitTrailer /\ [][NextTrailer]_vars

\* the indices (from 0) at which the word occurs in the buffer
Occurrences(b) ==
    {i \in 0..Len(b) : i + 7 <= Len(b) /\ \A k \in 1..7 : b[i + k] = TRAILER[k]}

\* C18: for every base position p and every buffer b, empty and shorter than
\* seven bytes included, find_trailer(p, b) returns p + i + 7 for the greatest
\* index i at which `trailer` occurs in b, and the error InvalidPdf("no trailer")
\* when it occurs nowhere.
C18_FindTrailerLastOccurrence ==
    dpc = "found" =>
        IF Occurrences(file.buffer) = {}
        THEN last.ret = Err(<<"InvalidPdf", "no trailer">>)
        ELSE \E i \in Occurrences(file.buffer) :
                /\ \A j \in Occurrences(file.buffer) : j <= i
                /\ last.ret = Ok(file.position + i + 7)

(***************************************************************************)
(* Claims about streams.                                                   *)
(***************************************************************************)
\* the page the last operation was about holds `/Contents 6 0 R`
ReadStream6 ==
    /\ last.op = "page_contents"
    /\ in_range(last.arg, doc)
    /\ get(doc.pages[last.arg + 1], "Contents") = Some(Ref(6))

\* the dictionary of stream 6 as the file holds it
Dict6InFile == file.parse[ObjectAt(6)][4].val

\* the bytes of the file between the LF that follows `stream` and `endstream`
Raw6InFile == file.parse[ObjectAt(6)][6].val

\* the body of the object a reference is addressed to
Target(r) == file.parse[ObjectAt(r.val.id)][4]

\* what /Length is once resolved: an integer, or NoneResult
Length6 ==
    IF "Length" \notin DOMAIN Dict6InFile THEN NoneResult
    ELSE IF Dict6InFile["Length"].kind = "Integer" THEN Some(Dict6InFile["Length"].val)
    ELSE IF Dict6InFile["Length"].kind = "Reference"
            /\ Dict6InFile["Length"].val.id \in 1..8
            /\ Target(Dict6InFile["Length"]).kind = "Integer"
    THEN Some(Target(Dict6InFile["Length"]).val)
    ELSE NoneResult

\* /Length bytes are there and only white space stands between them and `endstream`
LengthBytesThere ==
    /\ Length6.kind = "Some"
    /\ Length6.val <= Len(Raw6InFile)
    /\ AllWhite(SubSeq(Raw6InFile, Length6.val + 1, Len(Raw6InFile)))

\* the filters applied to the bytes read
Filtered6(buffer) ==
    IF "Filter" \notin DOMAIN Dict6InFile THEN Ok(buffer)
    ELSE IF Dict6InFile["Filter"] = Name("FlateDecode") THEN inflate_bytes_zlib(buffer)
    ELSE Err("not implemented")

C20_DereferenceTerminates ==
    last.op = "page_contents" => last.ret.kind # "Abort"

(***************************************************************************)
(* read_object at byte level: the source holds `id gen obj body endobj`    *)
(* and what follows it, the cursor stands at its first byte (seek_reference *)
(* has put it there).  dpc names the call of read_object that is under way. *)
(***************************************************************************)
OBJ == <<111, 98, 106>>

ENDOBJ == <<101, 110, 100, 111, 98, 106>>

ObjectAlphabet == {B.zero + 1, B.sp, B.slash, B.lbrk, B.rbrk, B.lowa}

\* id gen obj
EnvelopeHead(r) == <<B.zero + r.id, B.sp, B.zero + r.gen, B.sp>> \o OBJ \o <<B.sp>>

\* what stands between the body and `endobj`, and behind `endobj`
Separators == {<<>>, <<B.sp>>}

Tails == {<<>>, <<B.sp>>, <<B.lf, B.lowa>>, <<B.rbrk>>}

References == {[id |-> 1, gen |-> 0], [id |-> 2, gen |-> 1]}

ObjectFiles ==
    {[ref |-> r, written |-> w,
      bytes |-> EnvelopeHead(w) \o body \o sep \o ENDOBJ \o tail,
      end |-> Len(EnvelopeHead(w) \o body \o sep \o ENDOBJ)] :
        r \in References, w \in References \cup {[id |-> 1, gen |-> 1]},
        body \in BoundedSeq(ObjectAlphabet, MaxBodyLen), sep \in Separators, tail \in Tails}

InitObject ==
    /\ file \in ObjectFiles
    /\ bytes = file.bytes
    /\ pos = 0
    /\ caller = "next_object"
    /\ pc = "idle"
    /\ loc = InitLoc
    /\ frames = <<>>
    /\ token = NotCalled
    /\ result = NotCalled
    /\ doc = <<>>
    /\ dpc = "start"
    /\ locals = <<>>
    /\ last = Operation("read_object", 0, FALSE, Pending)

\* the calls of read_object in order, each with the one that follows it
AfterCall ==
    [start |-> "need_id", need_id |-> "need_gen", need_gen |-> "need_obj",
     need_obj |-> "object", object |-> "need_endobj", need_endobj |-> "done"]

\* what the call under way returned lets read_object go on
Passed ==
    CASE dpc = "start" -> TRUE
      [] dpc = "need_id" -> result = Some(Obj("Integer", file.ref.id))
      [] dpc = "need_gen" -> result = Some(Obj("Integer", file.ref.gen))
      [] dpc = "need_obj" -> result = Some(Obj("Keyword", "obj"))
      [] dpc = "object" -> result.kind = "Some"
      [] dpc = "need_endobj" -> result = Some(Obj("Keyword", "endobj"))

\* the error read_object returns when the call under way did not pass
Refused ==
    IF result.kind = "Err" THEN result
    ELSE CASE dpc \in {"need_id", "need_gen"} -> Err(<<"InvalidReferenceTarget", "">>)
           [] dpc = "need_obj" -> Err(<<"KeywordExpected", "obj">>)
           [] dpc = "object" -> Err(<<"InvalidPdf", "pdf object expected">>)
           [] dpc = "need_endobj" -> Err(<<"KeywordExpected", "endobj">>)

\* read_object between two of its calls: the match on what the last call
\* returned, then the next call or the return
ReadObjectStep ==
    /\ pc = "idle"
    /\ dpc \in DOMAIN AfterCall
    /\ IF Passed /\ dpc # "need_endobj"
       THEN /\ pc' = "skip_whitespace"
            /\ loc' = [InitLoc EXCEPT !.start = pos]
            /\ frames' = <<>>
            /\ result' = Pending
            /\ dpc' = AfterCall[dpc]
            /\ locals' = IF dpc = "object" THEN result.val ELSE locals
            /\ UNCHANGED <<bytes, pos, caller, token, file, doc, last>>
       ELSE /\ dpc' = IF Passed THEN "done" ELSE "failed"
            /\ last' = [last EXCEPT !.ret = IF Passed THEN Ok(locals) ELSE Refused]
            /\ UNCHANGED <<scan_vars, file, doc, locals>>

NextObject ==
    \/ ReadObjectStep
    \/ SkipWhitespaceStep
    \/ NextTokenDispatch
    \/ KeywordStep
    \/ NumberStep
    \/ NameStep

SpecObject == InitObject /\ [][NextObject]_vars

\* C21: read_object(r) succeeds only when the header written is `r.id r.gen obj`,
\* and then the cursor stands at the byte after `endobj`: one object and the
\* keyword were consumed and nothing behind it, also when `endobj` is the end of
\* the input.
C21_CursorAfterEndobj ==
    dpc = "done" =>
        /\ file.written = file.ref
        /\ pos = file.end
        /\ last.ret.kind = "Ok"

\* read_object succeeded on an envelope whose `endobj` ends the input
C21_Witness ==
    /\ dpc = "done"
    /\ file.end = Len(bytes)
    /\ pos = Len(bytes)

(***************************************************************************)
(* next_token called again and again on a source that is one token and     *)
(* nothing else: a number, a name or a keyword with no byte behind it.      *)
(***************************************************************************)
TokenAlphabet == {B.zero + 1, B.dot, B.plus, B.slash, B.upA, B.lown}

\* the text is what number(), name_or_symbol() or keyword() take as one token
IsNumberText(s) ==
    /\ s[1] \in {B.plus, B.minus, B.dot} \/ IsDigit(s[1])
    /\ \A i \in 2..Len(s) : IsDigit(s[i]) \/ s[i] = B.dot

IsNameText(s) == s[1] = B.slash

IsKeywordText(s) == \A i \in 1..Len(s) : IsLetter(s[i])

TokenSources ==
    {s \in BoundedSeq(TokenAlphabet, MaxTokenLen) :
        Len(s) > 0 /\ (IsNumberText(s) \/ IsNameText(s) \/ IsKeywordText(s))}

InitToken ==
    /\ bytes \in TokenSources
    /\ pos = 0
    /\ caller = "next_token"
    /\ pc = "idle"
    /\ loc = InitLoc
    /\ frames = <<>>
    /\ token = NotCalled
    /\ result = NotCalled
    /\ NoDocument

NextToken ==
    \/ Call
    \/ SkipWhitespaceStep
    \/ NextTokenDispatch
    \/ KeywordStep
    \/ NumberStep
    \/ NameStep

SpecToken == InitToken /\ [][NextToken]_vars

\* a call of next_token returns in this step
Returns_next_token == pc # "idle" /\ pc' = "idle"

\* C22: on a source that ends right after a number, a name or a keyword, the
\* first call of next_token returns with the whole text consumed and the cursor
\* at the end of the input (the backup after the end of input gives no byte
\* back), and every later call returns None.
C22_TokenOnceThenNone ==
    [][Returns_next_token =>
          IF token = NotCalled THEN pos' = Len(bytes) /\ result'.kind # "None"
          ELSE result' = NoneResult]_vars

(***************************************************************************)
(* next_token on a source that holds white space and comments only.  The   *)
(* caller goes on calling; a call that is under way goes on running (weak  *)
(* fairness of the steps: the program is one thread that is never stopped). *)
(***************************************************************************)
BlankAlphabet == Whitespace \cup {B.pct, B.lowa}

BlankSources == {s \in BoundedSeq(BlankAlphabet, MaxBlankLen) : Exhausted(s, 0)}

InitBlank ==
    /\ bytes \in BlankSources
    /\ pos = 0
    /\ caller = "next_token"
    /\ pc = "idle"
    /\ loc = InitLoc
    /\ frames = <<>>
    /\ token = NotCalled
    /\ result = NotCalled
    /\ NoDocument

NextBlank == Call \/ SkipWhitespaceStep \/ NextTokenDispatch

SpecBlank == InitBlank /\ [][NextBlank]_vars /\ WF_vars(NextBlank)

\* C23: on a source that is exhausted while white space and comments are
\* skipped (empty, white space only, or ending inside a comment that no LF
\* ends), next_token terminates and returns None.
C23_BlankSourceGivesNone ==
    <>(pc = "idle" /\ result = NoneResult)

\* the decimal points in a text
Dots(text) == {i \in DOMAIN text : text[i] = B.dot}

\* C24: the text number() accumulates for one token holds at most one decimal
\* point: a second `.` ends the token and is not taken into the text.
C24_AtMostOneDecimalPoint ==
    pc = "number" => Cardinality(Dots(loc.text)) <= 1

(***************************************************************************)
(* next_object on one array or dictionary whose elements are integers,     *)
(* the keyword R, a name and a symbol, each followed by a blank.            *)
(***************************************************************************)
Pieces == {<<B.zero + 1>>, <<82>>, <<B.slash, 65, 65>>, <<B.slash, 120>>}

\* `2 1 R` ahead of the elements, or nothing
Leads == {<<>>, <<<<B.zero + 2>>, <<B.zero + 1>>, <<82>>>>}

RECURSIVE Spaced(_)
Spaced(pieces) ==
    IF pieces = <<>> THEN <<>> ELSE Head(pieces) \o <<B.sp>> \o Spaced(Tail(pieces))

CompositeSource(kind, pieces) ==
    (IF kind = "array" THEN <<B.lbrk>> ELSE <<B.lt, B.lt>>) \o <<B.sp>> \o Spaced(pieces)
    \o (IF kind = "array" THEN <<B.rbrk>> ELSE <<B.gt, B.gt>>) \o <<B.sp>>

Composites ==
    {[kind |-> k, pieces |-> lead \o rest] :
        k \in {"array", "dictionary"}, lead \in Leads, rest \in BoundedSeq(Pieces, MaxElems)}

InitComposite ==
    /\ file \in Composites
    /\ bytes = CompositeSource(file.kind, file.pieces)
    /\ pos = 0
    /\ caller = "next_object"
    /\ pc = "idle"
    /\ loc = InitLoc
    /\ frames = <<>>
    /\ token = NotCalled
    /\ result = NotCalled
    /\ doc = <<>>
    /\ dpc = "none"
    /\ locals = <<>>
    /\ last = <<>>

NextComposite ==
    \/ Call
    \/ SkipWhitespaceStep
    \/ NextTokenDispatch
    \/ KeywordStep
    \/ NumberStep
    \/ NameStep

SpecComposite == InitComposite /\ [][NextComposite]_vars

\* the object a piece other than R stands for
PieceObject(piece) ==
    IF piece[1] = B.slash
    THEN IF piece = <<B.slash, 65, 65>> THEN Obj("Name", "AA")
         ELSE Obj("Symbol", Tail(piece))
    ELSE Obj("Integer", piece[1] - B.zero)

\* the elements collected from the pieces, every R folded as it is met;
\* ok is FALSE once an R has fewer than two elements or a non-integer before it
RECURSIVE Collected(_, _)
Collected(pieces, out) ==
    IF pieces = <<>> THEN [ok |-> TRUE, elems |-> out]
    ELSE IF Head(pieces) # <<82>>
    THEN Collected(Tail(pieces), Append(out, PieceObject(Head(pieces))))
    ELSE IF Len(out) >= 2 /\ out[Len(out) - 1].kind = "Integer" /\ out[Len(out)].kind = "Integer"
    THEN Collected(Tail(pieces),
                   Append(SubSeq(out, 1, Len(out) - 2),
                          Obj("Reference", [id |-> out[Len(out) - 1].val,
                                            gen |-> out[Len(out)].val])))
    ELSE [ok |-> FALSE, elems |-> <<>>]

\* the first call of next_object has returned
FirstReturned == caller = "next_object" /\ Returned /\ loc.start = 0

RefErrors == {Err("not enough arguments for R"), Err("invalid arguments to R")}

\* C25: inside an array or a dictionary every R replaces the last two collected
\* elements, when both are integers, by one Reference{id, gen}: an array comes
\* out as its elements in source order with the references in place of the
\* integers; with fewer than two elements or a non-integer among the last two
\* the call fails with InvalidPdf.
C25_ReferenceFoldsLastTwo ==
    FirstReturned =>
        IF ~Collected(file.pieces, <<>>).ok THEN result \in RefErrors
        ELSE /\ result \notin RefErrors
             /\ file.kind = "array" =>
                    result = Some(Obj("Array", Collected(file.pieces, <<>>).elems))

\* an array with two references came out
C25_Witness ==
    /\ FirstReturned
    /\ file.kind = "array"
    /\ result.kind = "Some"
    /\ Cardinality({i \in DOMAIN result.val.val : result.val.val[i].kind = "Reference"}) = 2

\* the flat sequence collected for the dictionary, a Null behind it when its
\* length is odd
Padded ==
    LET v == Collected(file.pieces, <<>>).elems
    IN IF Len(v) % 2 = 1 THEN Append(v, Null) ELSE v

\* the pairs (v1, v2), (v3, v4), ... by the index of their keys
KeyIndices == {i \in DOMAIN Padded : i % 2 = 1}

\* the dictionary closed by `>>` after a collection that did not fail
DictionaryClosed ==
    /\ FirstReturned
    /\ file.kind = "dictionary"
    /\ Collected(file.pieces, <<>>).ok

\* C26: on `>>` the flat sequence v1..vn collected for a dictionary is paired
\* (v1, v2), (v3, v4), ..., a Null standing for the value of the last key when n
\* is odd; the pairs whose key is a Name are the entries, the pairs whose key is
\* a Symbol are dropped, and a pair with any other key fails with
\* InvalidPdf("malformed dictionary").
C26_DictionaryFromPairs ==
    DictionaryClosed =>
        IF \E i \in KeyIndices : Padded[i].kind \notin {"Name", "Symbol"}
        THEN result = Err("malformed dictionary")
        ELSE /\ result.kind = "Some"
             /\ result.val.kind = "Dictionary"
             /\ DOMAIN result.val.val =
                    {Padded[i].val : i \in {j \in KeyIndices : Padded[j].kind = "Name"}}
             /\ \A k \in DOMAIN result.val.val :
                    \E i \in KeyIndices :
                        /\ Padded[i] = Obj("Name", k)
                        /\ result.val.val[k] = Padded[i + 1]

\* an odd sequence whose last key is a Name, behind a pair with a Symbol key
C26_Witness ==
    /\ DictionaryClosed
    /\ Len(Collected(file.pieces, <<>>).elems) = 3
    /\ Padded[1].kind = "Symbol"
    /\ result = Some(Obj("Dictionary", [k \in {"AA"} |-> Null]))


(***************************************************************************)
(* Claims about in-use cross-reference lines and the slots they fill.      *)
(***************************************************************************)
\* the slots below /Size whose last addressed line is flagged `n`
InUseSlots ==
    LET lines == AddressedLines(XrefItems, 1)
    IN {i \in 0..(locals.size - 1) :
           \E k \in DOMAIN lines :
               /\ lines[k].index = i
               /\ lines[k].line[3] = Kw("n")
               /\ \A j \in DOMAIN lines : lines[j].index = i => j <= k}

\* the line `position gen n` that fills slot i
LineOf(i) ==
    LET lines == AddressedLines(XrefItems, 1)
        hits == {k \in DOMAIN lines : lines[k].index = i}
    IN lines[CHOOSE k \in hits : \A j \in hits : j <= k].line

\* C27: after read_xref, every line `position gen n` addressed to a slot below
\* /Size, with gen in 0..65535, has left a slot that keeps the gen and the
\* position as written, and seek_reference on the slot's id succeeds and puts
\* the cursor at that position.
C27_InUseLineResolvable ==
    ReadXrefSucceeded =>
        \A i \in InUseSlots :
            LineOf(i)[2].val \in 0..65535 =>
                /\ doc.xref[i + 1] = [gen |-> LineOf(i)[2].val, position |-> LineOf(i)[1].val]
                /\ seek_reference(doc, [id |-> i, gen |-> LineOf(i)[2].val]).ret
                       = Ok(LineOf(i)[1].val)
                /\ seek_reference(doc, [id |-> i, gen |-> LineOf(i)[2].val]).doc.cur
                       = At(LineOf(i)[1].val)


(***************************************************************************)
(* Claims about the walk over the page tree.                               *)
(***************************************************************************)
\* C28: PdfDocument::new terminates for every file, returning a document or an
\* error, those whose page tree names a node among its own /Kids or those of a
\* descendant included: the recursion of read_pages never exhausts the stack.
C28_OpenTerminates ==
    last.op = "new" => last.ret # Abort("stack overflow")


(***************************************************************************)
(* Claims about /Filter arrays and /DecodeParms arrays.                    *)
(***************************************************************************)
\* the filters of chain taken one after the other on stream: FlateDecode
\* inflates, every other filter is rejected, and so is a payload that does not
\* inflate
RECURSIVE Processed(_, _)
Processed(stream, chain) ==
    IF chain = <<>> THEN [ok |-> TRUE, val |-> stream]
    ELSE IF Head(chain) # "FlateDecode" \/ inflate_bytes_zlib(stream).kind = "Err"
         THEN [ok |-> FALSE, val |-> <<>>]
         ELSE Processed(inflate_bytes_zlib(stream).val, Tail(chain))

FilterIsArray ==
    /\ "Filter" \in DOMAIN file.stream_dict
    /\ file.stream_dict["Filter"].kind = "Array"

\* C29: when /Filter is an array of k names decode_stream takes all k filters in
\* the order of the array, whatever the length of the /DecodeParms array: it
\* returns the payload with every filter applied, or an error when one of them
\* is rejected; no filter is passed over.
C29_AllFiltersProcessed ==
    (dpc = "decoded" /\ FilterIsArray) =>
        IF Processed(file.stream, Chain(file.stream_dict)).ok
        THEN last.ret = Ok(Processed(file.stream, Chain(file.stream_dict)).val)
        ELSE last.ret.kind = "Err"


(***************************************************************************)
(* The take-extractors of Access (dictionary.rs) on a dictionary: locals   *)
(* holds the dictionary, last the extractor called, its key and what it    *)
(* returned.                                                               *)
(***************************************************************************)
\* HashMap::remove: the value under name, if any, and the map without the key
remove(dict, name) ==
    [ret |-> IF name \in DOMAIN dict THEN Some(dict[name]) ELSE NoneResult,
     dict |-> [k \in DOMAIN dict \ {name} |-> dict[k]]]

\* the variants of PdfObject each want_* matches on
WantKinds ==
    [want_i32 |-> {"Integer"}, want_u32 |-> {"Integer"}, want_u64 |-> {"Integer"},
     want_string |-> {"Str"}, want_name |-> {"Name"}, want_symbol |-> {"Symbol"},
     want_number |-> {"Integer", "Real"}, want_reference |-> {"Reference"},
     want_dictionary |-> {"Dictionary"}, want_array |-> {"Array"}]

\* the want_* each need_* is built on
NeedWants ==
    [need_u32 |-> "want_u32", need_reference |-> "want_reference",
     need_dictionary |-> "want_dictionary", need_array |-> "want_array"]

\* want_*: match self.remove(&name) { Some(<variant>(v)) => Some(v), _ => None }
want(dict, name, op) ==
    [ret |-> IF remove(dict, name).ret.kind = "Some"
                /\ remove(dict, name).ret.val.kind \in WantKinds[op]
             THEN Some(remove(dict, name).ret.val.val)
             ELSE NoneResult,
     dict |-> remove(dict, name).dict]

\* need_*: match self.want_*(name) { Some(v) => Ok(v), None => Err(err) }
need(dict, name, op, err) ==
    [ret |-> IF want(dict, name, NeedWants[op]).ret.kind = "Some"
             THEN Ok(want(dict, name, NeedWants[op]).ret.val)
             ELSE Err(err),
     dict |-> want(dict, name, NeedWants[op]).dict]

TakeNames == {"Length", "Kids"}

TakeValues ==
    {Integer(3), Obj("Real", [m |-> 15, s |-> 1]), Obj("Str", <<65>>), Name("Page"),
     Obj("Symbol", "x"), Ref(4), Dict(EmptyDict), Arr(<<>>)}

TakeDictionaries ==
    UNION {[keys -> TakeValues] : keys \in SUBSET TakeNames}

CallerError == <<"InvalidPdf", "entry missing">>

InitTake ==
    /\ file \in TakeDictionaries
    /\ locals = [dict |-> file]
    /\ doc = NewDocument
    /\ dpc = "take"
    /\ last = Operation("none", "", FALSE, Pending)
    /\ NoScanner

Want ==
    /\ dpc = "take"
    /\ \E op \in DOMAIN WantKinds, name \in TakeNames :
          /\ locals' = [dict |-> want(locals.dict, name, op).dict]
          /\ last' = Operation(op, name, FALSE, want(locals.dict, name, op).ret)
    /\ UNCHANGED <<file, doc, dpc, scan_vars>>

Need ==
    /\ dpc = "take"
    /\ \E op \in DOMAIN NeedWants, name \in TakeNames :
          /\ locals' = [dict |-> need(locals.dict, name, op, CallerError).dict]
          /\ last' = Operation(op, name, FALSE, need(locals.dict, name, op, CallerError).ret)
    /\ UNCHANGED <<file, doc, dpc, scan_vars>>

NextTake == Want \/ Need

SpecTake == InitTake /\ [][NextTake]_vars

\* C30: a take-extractor (want_* or need_*) that returns None, or the error its
\* caller supplied, leaves the dictionary as it was, an entry of another type
\* under the key included; one that returns a value removes the entry under its
\* key and no other.
C30_FailedTakeKeepsDictionary ==
    [][IF last'.ret.kind \in {"None", "Err"}
       THEN locals'.dict = locals.dict
       ELSE locals'.dict = [k \in DOMAIN locals.dict \ {last'.arg} |-> locals.dict[k]]]_vars

====
